---- MODULE Spec2Model ----
(***************************************************************************)
(* ETR projections: the history store (daily_api._append_history on        *)
(* etr_history.csv, etr_add_daily.main on master.parquet), the recency     *)
(* weights, the calibration tables and the blended latest projections.     *)
(*                                                                         *)
(* Text cells are sequences of character codes, so that str.strip() and    *)
(* the CSV round trip act on them as the code does.  Numbers are exact     *)
(* rationals [n, d]; the float NaN of a numeric column is NaN, the NaN of  *)
(* an object (text) column is NaNObj.                                      *)
(***************************************************************************)
EXTENDS Integers, Sequences, FiniteSets, TLC

VARIABLES
    hist_csv,            \* rows of data/etr_history.csv, as written by to_csv
    projections_latest,  \* rows of artifacts/projections_latest.csv
    calibration_summary, \* artifacts/calibration_summary.json
    req,                 \* the upload request being answered
    response,            \* the JSON answer and HTTP status of that request
    uploads,             \* requests answered so far
    master,              \* rows of data/master.parquet
    raw_files,           \* data/raw/<date>.csv, by date
    cli,                 \* arguments and file of the last etr_add_daily run
    w_dates,             \* argument of _exponential_weights
    w_out,               \* its result
    cal_hist,            \* argument of _train_calibrations (a history frame)
    cal_out,             \* its result
    usage_in,            \* loaded tables and slate given to the usage engine
    usage_out,           \* result of calculate_usage_adjustments
    daily_out,           \* result of generate_daily_projections
    pm_in,               \* pattern table and arguments of find_similar_situation
    pm_out,              \* its result
    pred_in,             \* loaded tables and arguments of predict
    pred_out,            \* its result
    workers,             \* upload requests in progress, one per worker thread
    observed             \* what a concurrent reader of etr_history.csv saw

service_vars == <<hist_csv, projections_latest, calibration_summary, req, response,
                  uploads>>
master_vars == <<master, raw_files, cli>>
pure_vars == <<w_dates, w_out, cal_hist, cal_out>>
matcher_vars == <<pm_in, pm_out>>
predict_vars == <<pred_in, pred_out>>
usage_vars == <<usage_in, usage_out, daily_out, matcher_vars, predict_vars>>
conc_vars == <<workers, observed>>
vars == <<hist_csv, projections_latest, calibration_summary, req, response, uploads,
          master, raw_files, cli, w_dates, w_out, cal_hist, cal_out,
          usage_in, usage_out, daily_out, pm_in, pm_out, pred_in, pred_out,
          workers, observed>>

\* -------------------------------------------------------------------------
\* Bounds of the model
\* -------------------------------------------------------------------------
MaxDate == 2
MaxRows == 2
MaxUploads == 2

Dates == 1..MaxDate

\* -------------------------------------------------------------------------
\* Text values
\* -------------------------------------------------------------------------
SPACE == 32
NaN == -1
NonNumeric == -2
NaNObj == <<0>>
StrEmpty == << >>
StrNan == <<110, 97, 110>>
StrA == <<65>>
StrSpA == <<32, 65>>
StrLowA == <<97>>
StrBlank == <<32>>
StrB == <<66>>
StrT == <<84>>
StrX == <<88>>
StrY == <<89>>
StrLowX == <<120>>

RECURSIVE LStrip(_)
LStrip(s) ==
    IF s # << >> /\ Head(s) = SPACE THEN LStrip(Tail(s)) ELSE s

RECURSIVE RStrip(_)
RStrip(s) ==
    IF s # << >> /\ s[Len(s)] = SPACE THEN RStrip(SubSeq(s, 1, Len(s) - 1)) ELSE s

\* Series.str.strip()
Strip(s) == IF s = NaNObj THEN NaNObj ELSE RStrip(LStrip(s))

\* Series.astype(str): the missing value becomes the text "nan"
AsTypeStr(v) == IF v = NaNObj THEN StrNan ELSE v

\* str.upper() on one character code
UpperCode(c) == IF c >= 97 /\ c <= 122 THEN c - 32 ELSE c
Upper(s) == [i \in 1..Len(s) |-> UpperCode(s[i])]

\* Python's ordering of str values (code points, shorter prefix first)
RECURSIVE StrLess(_, _)
StrLess(a, b) ==
    IF b = << >> THEN FALSE
    ELSE IF a = << >> THEN TRUE
    ELSE IF Head(a) # Head(b) THEN Head(a) < Head(b)
    ELSE StrLess(Tail(a), Tail(b))

\* sort_values order of an object column: text ascending, NaN last
ObjLess(a, b) ==
    IF a = NaNObj THEN FALSE
    ELSE IF b = NaNObj THEN TRUE
    ELSE StrLess(a, b)

\* -------------------------------------------------------------------------
\* CSV round trip of a text cell (DataFrame.to_csv, pd.read_csv)
\* -------------------------------------------------------------------------
\* to_csv writes a missing value as the empty field
CsvWriteCell(v) == IF v = NaNObj THEN StrEmpty ELSE v

\* read_csv reads the empty field and the default NA spellings as NaN
CsvNaValues == {StrEmpty, StrNan}
CsvReadCell(t) == IF t \in CsvNaValues THEN NaNObj ELSE t

\* -------------------------------------------------------------------------
\* Columns
\* -------------------------------------------------------------------------
STAT_COLS == <<"PTS", "REB", "AST", "3PM", "STL", "BLK", "TO", "PRA">>
StatSet == {STAT_COLS[i] : i \in 1..Len(STAT_COLS)}
RequiredCols == {"Player", "Team", "Opp"}

\* The columns and rows the model's upload files are made of
UploadStats == {"PTS", "REB", "AST", "PRA"}
FullCols == {"Player", "Team", "Opp", "Minutes"} \cup UploadStats
RawPlayers == {StrA, StrSpA, StrLowA, StrBlank}
RawLines ==
    { [Team |-> StrT, Opp |-> StrX, Minutes |-> 30,
       stat |-> [PTS |-> 2, REB |-> 1, AST |-> 1, PRA |-> 4]],
      [Team |-> StrT, Opp |-> StrY, Minutes |-> 20,
       stat |-> [PTS |-> 3, REB |-> 2, AST |-> 0, PRA |-> 5]] }
RawRows ==
    { [Player |-> p, Team |-> l.Team, Opp |-> l.Opp, Minutes |-> l.Minutes,
       stat |-> l.stat] : p \in RawPlayers, l \in RawLines }

SeqsUpTo(S, n) == UNION { [1..k -> S] : k \in 1..n }

\* With(e, F) is F(e), with e evaluated once
Only(S) == CHOOSE only \in S : TRUE
With(e, F(_)) == Only({ F(v) : v \in {e} })

\* -------------------------------------------------------------------------
\* Frame helpers (pandas)
\* -------------------------------------------------------------------------
\* the rows of s whose index is in I, in order
RowsAt(s, I) ==
    With(<<s, I>>, LAMBDA a :
        LET f[k \in 0..Len(a[1])] ==
                IF k = 0 THEN << >>
                ELSE IF k \in a[2] THEN Append(f[k - 1], a[1][k]) ELSE f[k - 1]
        IN  f[Len(a[1])])

\* DataFrame.sort_values on several columns: a stable sort
SortStable(s, Less(_, _)) ==
    With(s, LAMBDA v :
        LET n == Len(v)
            pos(i) == 1 + Cardinality({ j \in 1..n :
                            \/ Less(v[j], v[i])
                            \/ (~Less(v[i], v[j]) /\ j < i) })
        IN  With([i \in 1..n |-> pos(i)], LAMBDA at :
                [p \in 1..n |-> v[CHOOSE i \in 1..n : at[i] = p]]))

\* DataFrame.drop_duplicates(subset, keep="last")
DropDuplicatesLast(s, SameKey(_, _)) ==
    With(s, LAMBDA v :
        RowsAt(v, { i \in 1..Len(v) :
                      \A j \in (i + 1)..Len(v) : ~SameKey(v[i], v[j]) }))

\* -------------------------------------------------------------------------
\* daily_api: helpers
\* -------------------------------------------------------------------------
\* _canonicalize_cols on one row: absent stat columns become NA, the three
\* text columns go through astype(str).str.strip()
CanonicalizeRow(r) ==
    [Player  |-> Strip(AsTypeStr(r.Player)),
     Team    |-> Strip(AsTypeStr(r.Team)),
     Opp     |-> Strip(AsTypeStr(r.Opp)),
     Minutes |-> r.Minutes,
     stat    |-> [s \in StatSet |->
                    IF s \in DOMAIN r.stat THEN r.stat[s] ELSE NaN]]

\* _canonicalize_cols raises ValueError when a required column is absent
CanonicalizeRaises(columns) == ~(RequiredCols \subseteq columns)

_canonicalize_cols(rows) ==
    With(rows, LAMBDA v : [i \in 1..Len(v) |-> CanonicalizeRow(v[i])])

\* pd.read_csv(HIST_CSV) and df.to_csv(HIST_CSV) on the text columns
CsvReadRow(r) ==
    [r EXCEPT !.Player = CsvReadCell(r.Player),
              !.Team   = CsvReadCell(r.Team),
              !.Opp    = CsvReadCell(r.Opp)]
CsvWriteRow(r) ==
    [r EXCEPT !.Player = CsvWriteCell(r.Player),
              !.Team   = CsvWriteCell(r.Team),
              !.Opp    = CsvWriteCell(r.Opp)]
ReadCsv(file) == With(file, LAMBDA v : [i \in 1..Len(v) |-> CsvReadRow(v[i])])
ToCsv(df) == With(df, LAMBDA v : [i \in 1..Len(v) |-> CsvWriteRow(v[i])])

DatePlayerLess(a, b) ==
    \/ a.Date < b.Date
    \/ (a.Date = b.Date /\ ObjLess(a.Player, b.Player))
SameDatePlayer(a, b) == a.Date = b.Date /\ a.Player = b.Player

\* df_day["Date"] = day
WithDate(df_day, day) ==
    With(df_day, LAMBDA v :
        [i \in 1..Len(v) |->
            [Date |-> day, Player |-> v[i].Player, Team |-> v[i].Team,
             Opp |-> v[i].Opp, Minutes |-> v[i].Minutes, stat |-> v[i].stat]])

\* _append_history: the file it leaves, given the file it found
\* (an absent file and an empty one both read as no rows)
_append_history(file, df_day, day) ==
    With(ReadCsv(file), LAMBDA df_prev :
    With(df_prev \o WithDate(df_day, day), LAMBDA df_all :
        ToCsv(DropDuplicatesLast(SortStable(df_all, DatePlayerLess),
                                 SameDatePlayer))))

\* -------------------------------------------------------------------------
\* Exact arithmetic: a number is [n, d] with d > 0 in lowest terms;
\* RNaN is the float NaN
\* -------------------------------------------------------------------------
RECURSIVE GCD(_, _)
GCD(a, b) == IF b = 0 THEN a ELSE GCD(b, a % b)
Abs(x) == IF x < 0 THEN -x ELSE x

RNaN == [n |-> 0, d |-> 0]
IsNaN(x) == x.d = 0
Rat(n, d) ==
    LET g == GCD(Abs(n), Abs(d))
        s == IF d < 0 THEN -1 ELSE 1
    IN  [n |-> s * (n \div g), d |-> s * (d \div g)]
RInt(v) == IF v = NaN THEN RNaN ELSE [n |-> v, d |-> 1]
RAdd(x, y) == IF IsNaN(x) \/ IsNaN(y) THEN RNaN
              ELSE LET g == GCD(x.d, y.d)
                   IN  Rat(x.n * (y.d \div g) + y.n * (x.d \div g),
                           (x.d \div g) * y.d)
RMul(x, y) == IF IsNaN(x) \/ IsNaN(y) THEN RNaN
              ELSE LET g1 == GCD(Abs(x.n), y.d)
                       g2 == GCD(Abs(y.n), x.d)
                   IN  Rat((x.n \div g1) * (y.n \div g2),
                           (x.d \div g2) * (y.d \div g1))
\* float division: x / 0 is not a number the model keeps (inf or nan)
RDiv(x, y) == IF IsNaN(x) \/ IsNaN(y) \/ y.n = 0 THEN RNaN
              ELSE RMul(x, Rat(y.d, y.n))
RLess(x, y) == ~IsNaN(x) /\ ~IsNaN(y) /\ x.n * y.d < y.n * x.d
ROne == [n |-> 1, d |-> 1]
RZero == [n |-> 0, d |-> 1]

\* Series.sum(): the sum of a sequence of numbers
RSum(xs) ==
    With(xs, LAMBDA v :
        LET f[k \in 0..Len(v)] == IF k = 0 THEN RZero ELSE RAdd(f[k - 1], v[k])
        IN  f[Len(v)])

\* Series.mean(): NaN is skipped, the mean of nothing is NaN
RMeanSkipNa(xs) ==
    With(xs, LAMBDA v :
        With({ i \in 1..Len(v) : ~IsNaN(v[i]) }, LAMBDA I :
            IF I = {} THEN RNaN
            ELSE RDiv(RSum(RowsAt(v, I)), RInt(Cardinality(I)))))

\* -------------------------------------------------------------------------
\* daily_api: tunables
\* -------------------------------------------------------------------------
W_ETR == 60
W_CAL == 40
EMA_HALFLIFE == 10
PERCENT == [n |-> 1, d |-> 100]

\* 0.5 ** (j / 10) for j = 0..9, in thousandths
HalfPowTenths == <<1000, 933, 871, 812, 758, 707, 660, 616, 574, 536>>

RECURSIVE Pow2(_)
Pow2(k) == IF k = 0 THEN 1 ELSE 2 * Pow2(k - 1)

\* (0.5) ** (k / EMA_HALFLIFE)
Decay(k) ==
    Rat(HalfPowTenths[(k % EMA_HALFLIFE) + 1], 1000 * Pow2(k \div EMA_HALFLIFE))

\* Series.rank(method="dense"): 1 for the oldest distinct date
DenseRank(dates, i) ==
    Cardinality({ dates[j] : j \in { j \in 1..Len(dates) : dates[j] <= dates[i] } })

\* _exponential_weights: one weight per row
MaxOf(S) == CHOOSE m \in S : \A x \in S : x <= m

\* the decay without the division by its sum
ExponentialWeightsUnnormalised(dates) ==
    With(dates, LAMBDA d :
    With([i \in 1..Len(d) |-> DenseRank(d, i)], LAMBDA ranks :
    With(MaxOf({ ranks[i] : i \in 1..Len(d) }), LAMBDA maxr :
        [i \in 1..Len(d) |-> Decay(maxr - ranks[i])])))

\* the decay running from the oldest date instead of the newest
ExponentialWeightsOldestFirst(dates) ==
    With(dates, LAMBDA d :
    With([i \in 1..Len(d) |-> DenseRank(d, i)], LAMBDA ranks :
    With([i \in 1..Len(d) |-> Decay(ranks[i] - 1)], LAMBDA decay :
    With(RSum(decay), LAMBDA total :
        [i \in 1..Len(d) |-> RDiv(decay[i], total)]))))

\* the decay by the number of calendar days before the newest date
ExponentialWeightsByCalendarGap(dates) ==
    With(dates, LAMBDA d :
    With(MaxOf({ d[i] : i \in 1..Len(d) }), LAMBDA newest :
    With([i \in 1..Len(d) |-> Decay(newest - d[i])], LAMBDA decay :
    With(RSum(decay), LAMBDA total :
        [i \in 1..Len(d) |-> RDiv(decay[i], total)]))))

_exponential_weights(dates) ==
    With(dates, LAMBDA d :
    With([i \in 1..Len(d) |-> DenseRank(d, i)], LAMBDA ranks :
    With(MaxOf({ ranks[i] : i \in 1..Len(d) }), LAMBDA maxr :
    With([i \in 1..Len(d) |-> Decay(maxr - ranks[i])], LAMBDA decay :
    With(RSum(decay), LAMBDA total :
        [i \in 1..Len(d) |-> RDiv(decay[i], total)])))))

\* -------------------------------------------------------------------------
\* daily_api._train_calibrations
\* -------------------------------------------------------------------------
\* df.dropna(subset=["Player"])
DropNaPlayer(df_hist) ==
    With(df_hist, LAMBDA v : RowsAt(v, { i \in 1..Len(v) : v[i].Player # NaNObj }))

\* df[[..., stat]].dropna(subset=[stat])
SubFrame(df, stat) ==
    With(df, LAMBDA v : RowsAt(v, { i \in 1..Len(v) : v[i].stat[stat] # NaN }))

DatesOf(sub) == [i \in 1..Len(sub) |-> sub[i].Date]
PlayersOf(sub) == { sub[i].Player : i \in 1..Len(sub) }
\* groupby("Opp") leaves out the rows whose Opp is missing
OppsOf(sub) == { sub[i].Opp : i \in 1..Len(sub) } \ {NaNObj}

\* the stats whose sub-frame is not empty: one frame each is appended to
\* player_ema_rows / opp_rows, in STAT_COLS order
StatsWithData(df) ==
    With(df, LAMBDA v :
        { s \in StatSet : \E i \in 1..Len(v) : v[i].stat[s] # NaN })

\* pivot(..., values=<long frame>.columns[-1]): the last column of the
\* concatenated long frame is the column of the last stat that has data
PivotValuesColumn(cols) ==
    STAT_COLS[MaxOf({ i \in 1..Len(STAT_COLS) : STAT_COLS[i] \in cols })]

\* the cell the pivot reads for a long-frame row made for `stat`: that row
\* holds NaN in every other stat's column
PivotCell(cols, stat, value) ==
    IF stat = PivotValuesColumn(cols) THEN value ELSE RNaN

\* sub["w"] = _exponential_weights(sub["Date"]);
\* sub.groupby("Player").apply(lambda g: (g[stat] * g["w"]).sum())
PlayerEmaLong(df, stat) ==
    With(SubFrame(df, stat), LAMBDA sub :
    With(_exponential_weights(DatesOf(sub)), LAMBDA w :
        [p \in PlayersOf(sub) |->
            RSum([i \in 1..Len(sub) |->
                    IF sub[i].Player = p
                    THEN RMul(RInt(sub[i].stat[stat]), w[i]) ELSE RZero])]))

\* player_ema_wide: index, stat columns and cells
PlayerEmaWide(df) ==
    With(StatsWithData(df), LAMBDA cols :
    With([s \in cols |-> PlayerEmaLong(df, s)], LAMBDA long :
    With(UNION { DOMAIN long[s] : s \in cols }, LAMBDA index :
        [index |-> index,
         cols  |-> IF cols = {} THEN StatSet ELSE cols,
         cell  |-> [p \in index |-> [s \in cols |->
                      IF p \in DOMAIN long[s]
                      THEN PivotCell(cols, s, long[s][p]) ELSE RNaN]]])))

\* 1e-9
EPSILON == [n |-> 1, d |-> 1000000000]

\* sub.groupby("Date")[stat].transform("mean").replace(0, 1e-9), per row
DayMean(sub, stat) ==
    With(sub, LAMBDA v :
        [i \in 1..Len(v) |->
            With(RMeanSkipNa([j \in 1..Len(v) |->
                    IF v[j].Date = v[i].Date THEN RInt(v[j].stat[stat]) ELSE RNaN]),
                 LAMBDA m : IF m.n = 0 THEN EPSILON ELSE m)])

\* sub["ratio"] = sub[stat] / day_mean; weights; per-opponent weighted sum
OppMultLong(df, stat) ==
    With(SubFrame(df, stat), LAMBDA sub :
    With(DayMean(sub, stat), LAMBDA day_mean :
    With(_exponential_weights(DatesOf(sub)), LAMBDA w :
        [o \in OppsOf(sub) |->
            RSum([i \in 1..Len(sub) |->
                    IF sub[i].Opp = o
                    THEN RMul(RDiv(RInt(sub[i].stat[stat]), day_mean[i]), w[i])
                    ELSE RZero])])))

SetToSeq(S) ==
    LET f[T \in SUBSET S] ==
            IF T = {} THEN << >>
            ELSE LET x == CHOOSE x \in T : TRUE IN Append(f[T \ {x}], x)
    IN  f[S]

\* the renormalisation loop on one column:
\* m = opp_mult_wide[stat].mean(); divide when notna(m) and m != 0
Renormalize(column) ==
    With(column, LAMBDA c :
    With(SetToSeq(DOMAIN c), LAMBDA idx :
    With(RMeanSkipNa([k \in 1..Len(idx) |-> c[idx[k]]]), LAMBDA m :
        [o \in DOMAIN c |->
            IF ~IsNaN(m) /\ m.n # 0 THEN RDiv(c[o], m) ELSE c[o]])))

\* opp_mult_wide: pivot, then the renormalisation loop
OppMultWide(df) ==
    With(StatsWithData(df), LAMBDA cols :
    With([s \in cols |-> OppMultLong(df, s)], LAMBDA long :
    With(UNION { DOMAIN long[s] : s \in cols }, LAMBDA index :
    With([s \in cols |-> Renormalize([o \in index |->
                IF o \in DOMAIN long[s]
                THEN PivotCell(cols, s, long[s][o]) ELSE RNaN])],
         LAMBDA column :
        [index |-> index,
         cols  |-> IF cols = {} THEN StatSet ELSE cols,
         cell  |-> [o \in index |-> [s \in cols |-> column[s][o]]]]))))

Summary(df_hist) ==
    With(DropNaPlayer(df_hist), LAMBDA df :
        [rows_in_history  |-> Len(df),
         distinct_players |-> Cardinality({ df[i].Player : i \in 1..Len(df) }),
         distinct_dates   |-> Cardinality({ df[i].Date : i \in 1..Len(df) }),
         ema_halflife_days |-> EMA_HALFLIFE,
         blend |-> [W_ETR |-> W_ETR, W_CAL |-> W_CAL]])

_train_calibrations(df_hist) ==
    With(DropNaPlayer(df_hist), LAMBDA df :
        [player_ema |-> PlayerEmaWide(df),
         opp_mult   |-> OppMultWide(df),
         summary    |-> Summary(df_hist)])

\* -------------------------------------------------------------------------
\* daily_api._rebuild_latest_projections
\* -------------------------------------------------------------------------
LatestDate(df_hist) == MaxOf({ df_hist[i].Date : i \in 1..Len(df_hist) })

\* a cell of a calibration table for a merge key, NaN when the key or the
\* column is not in the table (how="left")
Lookup(table, key, stat) ==
    IF key \in table.index /\ stat \in DOMAIN table.cell[key]
    THEN table.cell[key][stat] ELSE RNaN

\* one row of base: today's columns keep their names (suffix ""), the
\* player_ema columns arrive as <stat>_EMA, the opp_mult columns as <stat>_OPP
MergedRow(r, cal) ==
    [row |-> r,
     EMA |-> [s \in StatSet |-> Lookup(cal.player_ema, r.Player, s)],
     OPP |-> [s \in StatSet |-> Lookup(cal.opp_mult, r.Opp, s)]]

\* out.get(stat): the column named <stat>, which is today's raw value
ColumnGet(b, stat) == RInt(b.row.stat[stat])

\* Series.where(cond, other)
Where(x, cond, other) == IF cond THEN x ELSE other

\* W_ETR * raw + W_CAL * cal, the weights being percentages
Blend(raw, cal) ==
    RAdd(RMul(RMul(RInt(W_ETR), PERCENT), raw),
         RMul(RMul(RInt(W_CAL), PERCENT), cal))

\* the loop body: <stat>_FINAL of one row
BlendFinal(b, stat) ==
    LET raw       == RInt(b.row.stat[stat])
        ema_vals0 == ColumnGet(b, stat)
        opp_vals0 == ColumnGet(b, stat)
        ema_vals  == Where(ema_vals0, ~IsNaN(ema_vals0), raw)
        opp_vals  == Where(opp_vals0, ~IsNaN(opp_vals0), ROne)
        cal       == RMul(ema_vals, opp_vals)
    IN  Blend(raw, cal)

TeamPlayerLess(a, b) ==
    \/ ObjLess(a.Team, b.Team)
    \/ (a.Team = b.Team /\ ObjLess(a.Player, b.Player))

_rebuild_latest_projections(df_hist) ==
    With(df_hist, LAMBDA h :
    With(LatestDate(h), LAMBDA latest_date :
    With(RowsAt(h, { i \in 1..Len(h) : h[i].Date = latest_date }), LAMBDA today_df :
    With(_train_calibrations(h), LAMBDA cal :
    With([i \in 1..Len(today_df) |-> MergedRow(today_df[i], cal)], LAMBDA base :
        SortStable(
            [i \in 1..Len(base) |->
                [Date |-> base[i].row.Date, Player |-> base[i].row.Player,
                 Team |-> base[i].row.Team, Opp |-> base[i].row.Opp,
                 Minutes |-> base[i].row.Minutes,
                 stat |-> [s \in StatSet |-> BlendFinal(base[i], s)]]],
            TeamPlayerLess))))))

\* -------------------------------------------------------------------------
\* daily_api.upload_and_retrain (POST /api/daily/upload)
\* -------------------------------------------------------------------------
NoRequest == [kind |-> "none", date |-> 0, columns |-> {}, rows |-> << >>]
NoResponse == [status |-> 0, ok |-> FALSE, rows_uploaded |-> 0, history_rows |-> 0]
NoSummary == [rows_in_history |-> 0, distinct_players |-> 0, distinct_dates |-> 0,
              ema_halflife_days |-> 0, blend |-> [W_ETR |-> 0, W_CAL |-> 0]]

CsvRequests ==
    { [kind |-> "csv", date |-> d, columns |-> FullCols, rows |-> rows] :
        d \in Dates, rows \in SeqsUpTo(RawRows, MaxRows) }
\* a file without the Opp column
BadCsvRequests ==
    { [kind |-> "csv", date |-> d, columns |-> FullCols \ {"Opp"}, rows |-> <<r>>] :
        d \in Dates, r \in RawRows }
NoFileRequests ==
    { [kind |-> k, date |-> d, columns |-> {}, rows |-> << >>] :
        k \in {"no_file_part", "no_filename"}, d \in Dates }

\* a file whose PTS cell is text that is not a number, such as "DNP"
TextRows ==
    { [Player |-> StrA, Team |-> StrT, Opp |-> StrX, Minutes |-> 30,
       stat |-> [PTS |-> NonNumeric, REB |-> 1, AST |-> 1, PRA |-> 4]] }
TextCsvRequests ==
    { [kind |-> "csv", date |-> d, columns |-> FullCols, rows |-> <<r>>] :
        d \in Dates, r \in TextRows }

Requests == CsvRequests \cup BadCsvRequests \cup NoFileRequests \cup TextCsvRequests

\* a stat column of df_hist that holds such a cell is read as an object
\* column of str; g[stat] * g["w"] in _train_calibrations and
\* ema_vals * opp_vals in _rebuild_latest_projections raise TypeError on it
HasNonNumeric(df_hist) ==
    \E i \in 1..Len(df_hist) : \E s \in StatSet : df_hist[i].stat[s] = NonNumeric

\* one more request answered; the other programs' files are not touched
Answering(r) ==
    /\ uploads < MaxUploads
    /\ uploads' = uploads + 1
    /\ req' = r
    /\ UNCHANGED <<master, raw_files, cli, w_dates, w_out, cal_hist, cal_out>>
    /\ UNCHANGED <<usage_vars, conc_vars>>

\* "file" not in request.files, or an empty filename: 400, nothing touched
UploadRejected(r) ==
    /\ r.kind \in {"no_file_part", "no_filename"}
    /\ Answering(r)
    /\ response' = [status |-> 400, ok |-> FALSE, rows_uploaded |-> 0,
                    history_rows |-> 0]
    /\ UNCHANGED <<hist_csv, projections_latest, calibration_summary>>

\* _canonicalize_cols raises: the except branch answers 500
UploadFailed(r) ==
    /\ r.kind = "csv"
    /\ CanonicalizeRaises(r.columns)
    /\ Answering(r)
    /\ response' = [status |-> 500, ok |-> FALSE, rows_uploaded |-> 0,
                    history_rows |-> 0]
    /\ UNCHANGED <<hist_csv, projections_latest, calibration_summary>>

\* the whole handler on a readable file with the required columns
UploadOk(r) ==
    /\ r.kind = "csv"
    /\ ~CanonicalizeRaises(r.columns)
    /\ Answering(r)
    /\ \E df \in {_canonicalize_cols(r.rows)} :
       \E file \in {_append_history(hist_csv, df, r.date)} :
       \E df_hist \in {ReadCsv(file)} :
           /\ ~HasNonNumeric(df_hist)
           /\ hist_csv' = file
           /\ projections_latest' = _rebuild_latest_projections(df_hist)
           /\ calibration_summary' = _train_calibrations(df_hist).summary
           /\ response' = [status |-> 200, ok |-> TRUE,
                           rows_uploaded |-> Len(df),
                           history_rows |-> Len(df_hist)]

\* the handler when _rebuild_latest_projections raises: _append_history has
\* written the file, the except branch answers 500
UploadFailedAfterAppend(r) ==
    /\ r.kind = "csv"
    /\ ~CanonicalizeRaises(r.columns)
    /\ Answering(r)
    /\ \E df \in {_canonicalize_cols(r.rows)} :
       \E file \in {_append_history(hist_csv, df, r.date)} :
           /\ HasNonNumeric(ReadCsv(file))
           /\ hist_csv' = file
    /\ response' = [status |-> 500, ok |-> FALSE, rows_uploaded |-> 0,
                    history_rows |-> 0]
    /\ UNCHANGED <<projections_latest, calibration_summary>>

upload_and_retrain(r) ==
    \/ UploadRejected(r)
    \/ UploadFailed(r)
    \/ UploadFailedAfterAppend(r)
    \/ UploadOk(r)

\* -------------------------------------------------------------------------
\* etr_add_daily (command line): data/raw/<date>.csv and data/master.parquet
\* -------------------------------------------------------------------------
MaxCliRows == 1

NEEDED == {"Player", "Team", "Opp", "Minutes"} \cup StatSet

CliPlayers == {StrA, StrBlank}
CliRows ==
    { [Player |-> p, Team |-> StrT, Opp |-> o, Minutes |-> m,
       stat |-> [s \in StatSet |-> IF s = "PRA" THEN 4 ELSE 1]] :
        p \in CliPlayers, o \in {StrLowX, StrY}, m \in {0, 30} }

\* normalize_cols: text columns cleaned, then the rows with Minutes > 0 and a
\* non-empty Player
NormalizeRow(r) ==
    [r EXCEPT !.Player = Strip(AsTypeStr(r.Player)),
              !.Team   = Strip(Upper(AsTypeStr(r.Team))),
              !.Opp    = Strip(Upper(AsTypeStr(r.Opp)))]
normalize_cols(rows) ==
    With([i \in 1..Len(rows) |-> NormalizeRow(rows[i])], LAMBDA g :
        RowsAt(g, { i \in 1..Len(g) :
                      g[i].Minutes # NaN /\ g[i].Minutes > 0 /\ g[i].Player # StrEmpty }))

DatePlayerOppLess(a, b) ==
    \/ a.Date < b.Date
    \/ (a.Date = b.Date /\ ObjLess(a.Player, b.Player))
    \/ (a.Date = b.Date /\ a.Player = b.Player /\ ObjLess(a.Opp, b.Opp))
SameDatePlayerOpp(a, b) ==
    a.Date = b.Date /\ a.Player = b.Player /\ a.Opp = b.Opp

\* the merge of main: concat, sort_values, drop_duplicates(keep="last")
MergeMaster(m, df) ==
    With(m \o df, LAMBDA all :
        DropDuplicatesLast(SortStable(all, DatePlayerOppLess), SameDatePlayerOpp))

CliRuns ==
    { [date |-> d, columns |-> NEEDED, rows |-> rows] :
        d \in Dates, rows \in SeqsUpTo(CliRows, MaxCliRows) }
BadCliRuns ==
    { [date |-> d, columns |-> NEEDED \ {"PRA"}, rows |-> <<r>>] :
        d \in Dates, r \in CliRows }

\* main on a file that has every column
MainOk(a) ==
    /\ NEEDED \subseteq a.columns
    /\ \E df \in {WithDate(normalize_cols(a.rows), a.date)} :
          /\ raw_files' = [raw_files EXCEPT ![a.date] = df]
          /\ master' = MergeMaster(master, df)
    /\ cli' = a
    /\ UNCHANGED <<hist_csv, projections_latest, calibration_summary, req,
                   response, uploads, w_dates, w_out, cal_hist, cal_out>>
    /\ UNCHANGED <<usage_vars, conc_vars>>

\* resolve_col raises ValueError: the script ends before it writes anything
MainMissingColumn(a) ==
    /\ ~(NEEDED \subseteq a.columns)
    /\ cli' = a
    /\ UNCHANGED <<master, raw_files>>
    /\ UNCHANGED <<hist_csv, projections_latest, calibration_summary, req,
                   response, uploads, w_dates, w_out, cal_hist, cal_out>>
    /\ UNCHANGED <<usage_vars, conc_vars>>

etr_add_daily_main(a) ==
    \/ MainOk(a)
    \/ MainMissingColumn(a)

\* -------------------------------------------------------------------------
\* Calls of the pure functions
\* -------------------------------------------------------------------------
MaxWeightRows == 4
MaxWeightDay == 4

\* one more row in the frame whose Date column is weighted
WeightsAddRow(d) ==
    /\ Len(w_dates) < MaxWeightRows
    /\ w_dates' = Append(w_dates, d)
    /\ w_out' = << >>
    /\ UNCHANGED <<hist_csv, projections_latest, calibration_summary, req,
                   response, uploads, master, raw_files, cli, cal_hist, cal_out>>
    /\ UNCHANGED <<usage_vars, conc_vars>>

\* sub["w"] = _exponential_weights(sub["Date"]), on a non-empty frame
WeightsCall ==
    /\ w_dates # << >>
    /\ w_out = << >>
    /\ w_out' = _exponential_weights(w_dates)
    /\ UNCHANGED <<hist_csv, projections_latest, calibration_summary, req,
                   response, uploads, master, raw_files, cli, w_dates,
                   cal_hist, cal_out>>
    /\ UNCHANGED <<usage_vars, conc_vars>>

MaxCalDate == 3
\* history frames for _train_calibrations, as read back from etr_history.csv:
\* sorted by (Date, Player), one row per key.  Player A scores 10 * day (or
\* 0) against X; player B scores 10 * day against X or Y and may have REB.
CalRowsA(d) ==
    { [Date |-> d, Player |-> StrA, Team |-> StrT, Opp |-> StrX, Minutes |-> 30,
       stat |-> [s \in StatSet |-> IF s = "PTS" THEN pts ELSE NaN]] :
        pts \in {0, 10 * d} }
CalRowsB(d) ==
    { [Date |-> d, Player |-> StrB, Team |-> StrT, Opp |-> o, Minutes |-> 30,
       stat |-> [s \in StatSet |-> IF s = "PTS" THEN 10 * d
                                   ELSE IF s = "REB" THEN reb ELSE NaN]] :
        o \in {StrX, StrY}, reb \in {NaN, 5} }
Optional(S) == { << >> } \cup { <<r>> : r \in S }
RECURSIVE CalHistoriesTo(_)
CalHistoriesTo(d) ==
    IF d = 0 THEN { << >> }
    ELSE { h \o a \o b : h \in CalHistoriesTo(d - 1),
                         a \in Optional(CalRowsA(d)), b \in Optional(CalRowsB(d)) }
CalHistories == CalHistoriesTo(MaxCalDate) \ { << >> }

NotTrained == [trained |-> FALSE, player_ema |-> << >>, opp_mult |-> << >>,
               summary |-> NoSummary]

\* player_ema, opp_mult, summary = _train_calibrations(df_hist)
CalTrain ==
    /\ cal_hist # << >>
    /\ ~cal_out.trained
    /\ \E out \in {_train_calibrations(cal_hist)} :
          cal_out' = [trained |-> TRUE, player_ema |-> out.player_ema,
                      opp_mult |-> out.opp_mult, summary |-> out.summary]
    /\ UNCHANGED <<hist_csv, projections_latest, calibration_summary, req,
                   response, uploads, master, raw_files, cli, w_dates, w_out,
                   cal_hist>>
    /\ UNCHANGED <<usage_vars, conc_vars>>

\* -------------------------------------------------------------------------
\* app.NBAProjectionSystem: the usage engine
\* -------------------------------------------------------------------------
USAGE_STATS == {"Points", "Rebounds", "Assists", "Steals", "Blocks",
                "Three Pointers Made"}

\* Python's min(a, b) and max(a, b) on numbers
Min2(a, b) == IF RLess(b, a) THEN b ELSE a
Max2(a, b) == IF RLess(a, b) THEN b ELSE a
RSub(x, y) == RAdd(x, [y EXCEPT !.n = -y.n])
RAbs(x) == IF RLess(x, RZero) THEN RSub(RZero, x) ELSE x
Hundredths(k) == Rat(k, 100)

\* load_learned_caps: the fallback table when no learned file is present;
\* calculate_usage_adjustments reads it with team_caps.get(team, 1.40)
DefaultTeamCaps ==
    [t \in {"IND", "CLE", "CHA", "ATL", "BKN", "DAL", "LAC", "LAL", "WAS"} |->
        CASE t = "IND" -> Hundredths(115)
          [] t \in {"CLE", "CHA", "LAL"} -> Hundredths(125)
          [] OTHER -> Hundredths(130)]
TeamCap(team_caps, team) ==
    IF team \in DOMAIN team_caps THEN team_caps[team] ELSE Hundredths(140)

\* a value a Python call either returns or raises out of
Returns(v) == [raised |-> FALSE, value |-> v]
Raises == [raised |-> TRUE, value |-> << >>]
EmptyMap == << >>

\* the keys of a dict kept in insertion order, and its items
Keys(d) == { d[i].key : i \in 1..Len(d) }
Item(d, k) == d[CHOOSE i \in 1..Len(d) : d[i].key = k].value

\* master_stats rows of one player: Series.mean() of a column
ColumnMean(column) ==
    RDiv(RSum([i \in 1..Len(column) |-> RInt(column[i])]), RInt(Len(column)))

\* Series.unique(): the players in order of first appearance
UniquePlayers(rows) ==
    With(rows, LAMBDA v :
        LET f[k \in 0..Len(v)] ==
                IF k = 0 THEN << >>
                ELSE IF \E j \in 1..(k - 1) : v[j].Player = v[k].Player
                     THEN f[k - 1] ELSE Append(f[k - 1], v[k].Player)
        IN  f[Len(v)])

\* get_typical_team_minutes: {} without master stats, else one entry per
\* player of the team with the means of Minutes and of the six stats
get_typical_team_minutes(master_stats, team) ==
    IF ~master_stats.loaded THEN << >>
    ELSE
    With(RowsAt(master_stats.rows,
                { i \in 1..Len(master_stats.rows) : master_stats.rows[i].Team = team }),
         LAMBDA team_players :
    With(UniquePlayers(team_players), LAMBDA names :
        [k \in 1..Len(names) |->
            With(RowsAt(team_players,
                        { i \in 1..Len(team_players) : team_players[i].Player = names[k] }),
                 LAMBDA player_games :
                [key |-> names[k],
                 value |-> [typical_minutes |-> ColumnMean([i \in 1..Len(player_games) |->
                                                   player_games[i].Minutes]),
                            master_stats |->
                                [s \in USAGE_STATS |->
                                    ColumnMean([i \in 1..Len(player_games) |->
                                                  player_games[i].stats[s]])]]])]))

\* the ratio as computed, before the clamp
PatternRatio(impact_data) ==
    RDiv(RInt(impact_data.without_player), RInt(impact_data.with_player))

\* HistoricalPatternMatcher.find_similar_situation, one (missing, active)
\* pair: without / with, clamped to [0.90, 1.50]
PatternMultiplier(impact_data) ==
    Max2(Hundredths(90),
         Min2(Hundredths(150),
              RDiv(RInt(impact_data.without_player), RInt(impact_data.with_player))))
\* impact_data['with_player'] or impact_data['without_player'] is a KeyError
PatternMalformed(impact_data) ==
    ~({"with_player", "without_player"} \subseteq DOMAIN impact_data)
PatternApplies(impact_data) ==
    /\ impact_data.with_player > 0
    /\ RLess(Hundredths(3), RAbs(RSub(PatternMultiplier(impact_data), ROne)))

\* the pairs the two loops visit: missing players that have a pattern and
\* active players among that pattern's teammates
PatternPairs(team_patterns, missing_players, active_players) ==
    { <<m, a>> \in (missing_players \cap DOMAIN team_patterns) \X active_players :
        a \in DOMAIN team_patterns[m] }

\* adjustments[active_player] after the missing players up to position k:
\* the first multiplier is stored, each later one is averaged with it
BlendedPattern(team_patterns, missing_order, active_player) ==
    With(<<team_patterns, missing_order, active_player>>, LAMBDA a :
        LET f[k \in 0..Len(a[2])] ==
                IF k = 0 THEN [has |-> FALSE, value |-> ROne]
                ELSE IF /\ a[2][k] \in DOMAIN a[1]
                        /\ a[3] \in DOMAIN a[1][a[2][k]]
                        /\ PatternApplies(a[1][a[2][k]][a[3]])
                     THEN [has |-> TRUE,
                           value |->
                             IF f[k - 1].has
                             THEN RDiv(RAdd(f[k - 1].value,
                                            PatternMultiplier(a[1][a[2][k]][a[3]])),
                                       RInt(2))
                             ELSE PatternMultiplier(a[1][a[2][k]][a[3]])]
                     ELSE f[k - 1]
        IN  f[Len(a[2])])

\* find_similar_situation(team, missing_players, active_players): the map
\* player -> multiplier, {} for a team without patterns
find_similar_situation(patterns, team, missing_order, active_players) ==
    IF team \notin DOMAIN patterns THEN Returns(EmptyMap)
    ELSE IF \E p \in PatternPairs(patterns[team],
                                  { missing_order[i] : i \in 1..Len(missing_order) },
                                  active_players) :
                PatternMalformed(patterns[team][p[1]][p[2]])
    THEN Raises
    ELSE With({ a \in active_players :
                  BlendedPattern(patterns[team], missing_order, a).has },
              LAMBDA adjusted :
            Returns([a \in adjusted |->
                        BlendedPattern(patterns[team], missing_order, a).value]))

\* an exception that leaves the try block unhandled
Propagate(result) == result
\* try: ... except Exception: return {}
Catch(result) == IF result.raised THEN Returns(EmptyMap) ELSE result

Clamp(lo, hi, x) == Max2(lo, Min2(hi, x))
IsNumber(v) == "n" \in DOMAIN v
\* impact_data.get(key, 1.0)
ImpactGet(impact_data, key) ==
    IF key \in DOMAIN impact_data THEN impact_data[key] ELSE ROne

\* "Only apply if meaningful (>2% change)"
Meaningful(impact_data) ==
    \/ RLess(Hundredths(2), RAbs(RSub(ImpactGet(impact_data, "ast_multiplier"), ROne)))
    \/ RLess(Hundredths(2), RAbs(RSub(ImpactGet(impact_data, "pts_multiplier"), ROne)))
\* abs(x - 1.0) and min(cap, x) on a value that is not a number: TypeError
ImpactMalformed(impact_data) ==
    \/ ~IsNumber(ImpactGet(impact_data, "ast_multiplier"))
    \/ ~IsNumber(ImpactGet(impact_data, "pts_multiplier"))
    \/ /\ Meaningful(impact_data)
       /\ ~IsNumber(ImpactGet(impact_data, "reb_multiplier"))

\* the entry made for a teammate by the first absent star that moves them
NewAbsenceEntry(impact_data) ==
    [multipliers |->
        [s \in USAGE_STATS |->
            CASE s = "Points" ->
                    Clamp(Hundredths(89), Hundredths(113),
                          ImpactGet(impact_data, "pts_multiplier"))
              [] s = "Rebounds" ->
                    Clamp(Hundredths(90), Hundredths(115),
                          ImpactGet(impact_data, "reb_multiplier"))
              [] s = "Assists" ->
                    Clamp(Hundredths(85), Hundredths(120),
                          ImpactGet(impact_data, "ast_multiplier"))
              [] s = "Three Pointers Made" ->
                    Clamp(Hundredths(90), Hundredths(110),
                          ImpactGet(impact_data, "pts_multiplier"))
              [] OTHER -> ROne],
     source |-> "etr_calibrated_absence"]

\* a later absent star: the three multipliers are multiplied in and clamped
CombinedAbsenceEntry(entry, impact_data) ==
    [entry EXCEPT
        !.multipliers["Assists"] =
            Clamp(Hundredths(85), Hundredths(120),
                  RMul(entry.multipliers["Assists"],
                       ImpactGet(impact_data, "ast_multiplier"))),
        !.multipliers["Points"] =
            Clamp(Hundredths(89), Hundredths(113),
                  RMul(entry.multipliers["Points"],
                       ImpactGet(impact_data, "pts_multiplier"))),
        !.multipliers["Rebounds"] =
            Clamp(Hundredths(90), Hundredths(115),
                  RMul(entry.multipliers["Rebounds"],
                       ImpactGet(impact_data, "reb_multiplier")))]

\* dict[key] = value
Put(map, key, value) ==
    [k \in DOMAIN map \cup {key} |-> IF k = key THEN value ELSE map[k]]

\* the (teammate, impact_data) items the two loops visit, in order: for each
\* star of the table that is not in the slate, its teammates that are
AbsenceVisits(team_impacts, slate) ==
    With(<<team_impacts, slate>>, LAMBDA a :
        LET f[k \in 0..Len(a[1])] ==
                IF k = 0 THEN << >>
                ELSE IF a[1][k].key \in DOMAIN a[2] THEN f[k - 1]
                     ELSE f[k - 1] \o
                          RowsAt(a[1][k].value,
                                 { i \in 1..Len(a[1][k].value) :
                                     a[1][k].value[i].key \in DOMAIN a[2] })
        IN  f[Len(a[1])])

AbsenceBody(learned_absence_impacts, team, slate) ==
    IF team \notin DOMAIN learned_absence_impacts THEN Returns(EmptyMap)
    ELSE
    With(AbsenceVisits(learned_absence_impacts[team], slate), LAMBDA visits :
        IF \E i \in 1..Len(visits) : ImpactMalformed(visits[i].value) THEN Raises
        ELSE
        LET f[k \in 0..Len(visits)] ==
                IF k = 0 THEN EmptyMap
                ELSE IF ~Meaningful(visits[k].value) THEN f[k - 1]
                     ELSE IF visits[k].key \in DOMAIN f[k - 1]
                          THEN Put(f[k - 1], visits[k].key,
                                   CombinedAbsenceEntry(f[k - 1][visits[k].key],
                                                        visits[k].value))
                          ELSE Put(f[k - 1], visits[k].key,
                                   NewAbsenceEntry(visits[k].value))
        IN  Returns(f[Len(visits)]))

\* calculate_assist_redistribution(team, projected_players_dict): the whole
\* body runs under try / except and an exception yields {}
calculate_assist_redistribution(learned_absence_impacts, team, slate) ==
    Catch(AbsenceBody(learned_absence_impacts, team, slate))

\* a multiplier left as computed
Uncapped(multiplier, max_boost) == multiplier
\* multiplier = min(multiplier, max_boost)
CapAtTeamCeiling(multiplier, max_boost) == Min2(multiplier, max_boost)

\* the historical path: one capped multiplier for all six stats
HistoricalAdjustments(historical_adjustments, max_boost) ==
    [p \in DOMAIN historical_adjustments |->
        [multipliers |->
            [s \in USAGE_STATS |->
                CapAtTeamCeiling(historical_adjustments[p], max_boost)],
         source |-> "historical_pattern"]]

\* new_assists.get('Assists', 1.0), existing.get('Assists', 1.0)
GetAssists(multipliers) ==
    IF "Assists" \in DOMAIN multipliers THEN multipliers["Assists"] ELSE ROne

\* the merge in which the assist path's Assists multiplier is always taken
MergeAssistAlways(adjustments, assist_adjustments, source) ==
    [p \in DOMAIN adjustments \cup DOMAIN assist_adjustments |->
        IF p \notin DOMAIN assist_adjustments THEN adjustments[p]
        ELSE IF p \notin DOMAIN adjustments THEN assist_adjustments[p]
        ELSE [adjustments[p] EXCEPT
                !.multipliers = Put(adjustments[p].multipliers, "Assists",
                                    assist_adjustments[p].multipliers["Assists"]),
                !.source = source]]

\* the merge loop: for a player both paths adjusted, the assist path's
\* Assists multiplier replaces the existing one when it is higher, and the
\* source is renamed; a player only the assist path adjusted gets its entry
MergeAssist(adjustments, assist_adjustments, source) ==
    [p \in DOMAIN adjustments \cup DOMAIN assist_adjustments |->
        IF p \notin DOMAIN assist_adjustments THEN adjustments[p]
        ELSE IF p \notin DOMAIN adjustments THEN assist_adjustments[p]
        ELSE IF RLess(GetAssists(adjustments[p].multipliers),
                      GetAssists(assist_adjustments[p].multipliers))
             THEN [adjustments[p] EXCEPT
                     !.multipliers = Put(adjustments[p].multipliers, "Assists",
                                         assist_adjustments[p].multipliers["Assists"]),
                     !.source = source]
             ELSE adjustments[p]]

\* sum(projected_players_dict.values())
TotalActiveMinutes(slate) ==
    With(slate, LAMBDA v :
        LET f[T \in SUBSET DOMAIN v] ==
                IF T = {} THEN 0
                ELSE LET x == CHOOSE x \in T : TRUE IN v[x] + f[T \ {x}]
        IN  f[DOMAIN v])

\* sum(p['master_stats'].get(stat, 0) for p in missing_players.values())
MissingProduction(typical_roster, missing_order, stat) ==
    RSum([i \in 1..Len(missing_order) |->
            Item(typical_roster, missing_order[i]).master_stats[stat]])

\* the share by minutes alone
GenericShareMinutesOnly(projected_mins, total_active_minutes, typical_roster, player_name) ==
    IF total_active_minutes > 0
    THEN Rat(projected_mins, total_active_minutes) ELSE RZero

\* total_share = minute_share * 0.80 + extra_minute_boost * 0.20
GenericShare(projected_mins, total_active_minutes, typical_roster, player_name) ==
    LET minute_share ==
            IF total_active_minutes > 0
            THEN Rat(projected_mins, total_active_minutes) ELSE RZero
        typical_mins ==
            IF player_name \in Keys(typical_roster)
            THEN Item(typical_roster, player_name).typical_minutes ELSE RZero
        extra_minute_boost ==
            IF player_name \in Keys(typical_roster) /\ RLess(RZero, typical_mins)
            THEN Max2(RZero, RDiv(RSub(RInt(projected_mins), typical_mins),
                                  typical_mins))
            ELSE RZero
    IN  RAdd(RMul(minute_share, Hundredths(80)),
             RMul(extra_minute_boost, Hundredths(20)))

\* is_replacement: five minutes above the typical role, or not in the roster
IsReplacement(projected_mins, typical_roster, player_name) ==
    IF player_name \in Keys(typical_roster)
    THEN RLess(RAdd(Item(typical_roster, player_name).typical_minutes, RInt(5)),
               RInt(projected_mins))
    ELSE TRUE

\* efficiency = 0.67 if is_replacement else 0.57, times 1.05 from 35 minutes
Efficiency(projected_mins, typical_roster, player_name) ==
    RMul(IF IsReplacement(projected_mins, typical_roster, player_name)
         THEN Hundredths(67) ELSE Hundredths(57),
         IF projected_mins >= 35 THEN Hundredths(105) ELSE ROne)

\* the multipliers of one active player: the stats whose typical value of
\* the player is positive
GenericMultipliers(typical_roster, missing_order, slate, player_name, max_boost) ==
    With(IF player_name \in Keys(typical_roster)
         THEN { s \in USAGE_STATS :
                  RLess(RZero, Item(typical_roster, player_name).master_stats[s]) }
         ELSE {},
         LAMBDA stats :
    With(TotalActiveMinutes(slate),
         LAMBDA total_active_minutes :
        [s \in stats |->
            CapAtTeamCeiling(
                RAdd(ROne,
                     RDiv(RMul(RMul(MissingProduction(typical_roster, missing_order, s),
                                    GenericShare(slate[player_name], total_active_minutes,
                                                 typical_roster, player_name)),
                               Efficiency(slate[player_name], typical_roster, player_name)),
                          Item(typical_roster, player_name).master_stats[s])),
                max_boost)]))

\* the generic path: active players from 15 projected minutes whose
\* multipliers include one above 1.05
GenericAdjustments(typical_roster, missing_order, slate, max_boost) ==
    With([p \in { p \in DOMAIN slate : slate[p] >= 15 } |->
            GenericMultipliers(typical_roster, missing_order, slate, p, max_boost)],
         LAMBDA computed :
        [p \in { p \in DOMAIN computed :
                   \E s \in DOMAIN computed[p] : RLess(Hundredths(105), computed[p][s]) } |->
            [multipliers |-> computed[p],
             share |-> GenericShare(slate[p],
                                    TotalActiveMinutes(slate),
                                    typical_roster, p),
             source |-> "generic"]])

\* the roster players missing from the slate with 20 typical minutes or more
MissingPlayers(typical_roster, slate) ==
    With(RowsAt(typical_roster,
                { i \in 1..Len(typical_roster) :
                    /\ typical_roster[i].key \notin DOMAIN slate
                    /\ ~RLess(typical_roster[i].value.typical_minutes, RInt(20)) }),
         LAMBDA missing : [i \in 1..Len(missing) |-> missing[i].key])

\* lines inside the try of calculate_usage_adjustments
UsageBody(engine, team, slate, max_boost, assist_adjustments) ==
    With(get_typical_team_minutes(engine.master_stats, team), LAMBDA typical_roster :
    IF Len(typical_roster) = 0 THEN Returns(EmptyMap)
    ELSE
    With(MissingPlayers(typical_roster, slate), LAMBDA missing_order :
    IF Len(missing_order) = 0 THEN Returns(EmptyMap)
    ELSE
    With(find_similar_situation(engine.patterns, team, missing_order, DOMAIN slate),
         LAMBDA historical :
    IF historical.raised THEN Raises
    ELSE IF DOMAIN historical.value # {}
    THEN Returns(MergeAssist(HistoricalAdjustments(historical.value, max_boost),
                             assist_adjustments, "assist_redistribution+historical"))
    ELSE Returns(MergeAssist(GenericAdjustments(typical_roster, missing_order, slate,
                                                max_boost),
                             assist_adjustments, "assist_redistribution+generic")))))

\* calculate_usage_adjustments(team, projected_players_dict)
calculate_usage_adjustments(engine, team, slate) ==
    Catch(UsageBody(engine, team, slate, TeamCap(engine.team_caps, team),
                    calculate_assist_redistribution(engine.learned_absence_impacts,
                                                    team, slate).value))

\* generate_daily_projections(dfs_data): one output row per player whose
\* predict() succeeded, with the predicted values as they are
ProjectionRow(player_data, result) ==
    [player |-> player_data.player,
     team |-> player_data.team,
     minutes |-> player_data.minutes,
     points |-> RInt(result.projections["Points"]),
     rebounds |-> RInt(result.projections["Rebounds"]),
     assists |-> RInt(result.projections["Assists"]),
     three_pointers_made |-> RInt(result.projections["Three Pointers Made"]),
     steals |-> RInt(result.projections["Steals"]),
     blocks |-> RInt(result.projections["Blocks"]),
     turnovers |-> RInt(result.projections["Turnovers"]),
     pra |-> RInt(result.projections["PRA"]),
     usage_boosted |-> FALSE]
generate_daily_projections(dfs_data, predict) ==
    With(<<dfs_data, predict>>, LAMBDA a :
        LET f[k \in 0..Len(a[1])] ==
                IF k = 0 THEN << >>
                ELSE IF a[2][a[1][k].player].success
                     THEN Append(f[k - 1],
                                 ProjectionRow(a[1][k], a[2][a[1][k].player]))
                     ELSE f[k - 1]
        IN  f[Len(a[1])])

\* ---- the engine's tables and the slates it is called with ----
RosterTeams == {"T", "IND"}
StatLine(pts, reb, ast, stl, blk, tpm) ==
    [s \in USAGE_STATS |->
        CASE s = "Points" -> pts [] s = "Rebounds" -> reb [] s = "Assists" -> ast
          [] s = "Steals" -> stl [] s = "Blocks" -> blk [] OTHER -> tpm]
Game(team, player, minutes, stats) ==
    [Team |-> team, Player |-> player, Minutes |-> minutes, stats |-> stats]

\* master stats: Star (two games, 35 minutes and 25 points on average),
\* B with one game, optionally Star2, a bench player G, and Z of another team
MasterFrames ==
    { <<Game(tm, "Star", 34, StatLine(24, 6, 8, 1, 1, 2)),
        Game(tm, "B", b_min, StatLine(b_pts, 4, b_ast, 1, 0, 1)),
        Game(tm, "Star", 36, StatLine(26, 6, 8, 1, 1, 2))>>
      \o (IF star2 THEN <<Game(tm, "Star2", 30, StatLine(15, 5, 7, 1, 0, 1))>>
          ELSE << >>) \o
      <<Game(tm, "G", 10, StatLine(4, 2, 1, 0, 0, 0)),
        Game("U", "Z", 30, StatLine(12, 5, 3, 1, 1, 1))>> :
        tm \in RosterTeams, b_min \in {20, 25, 30}, b_pts \in {10, 20},
        b_ast \in {0, 5},
        star2 \in BOOLEAN }
MasterStats ==
    {[loaded |-> FALSE, rows |-> << >>]}
        \cup { [loaded |-> TRUE, rows |-> rows] : rows \in MasterFrames }

Impact(with, without) ==
    [with_player |-> with, without_player |-> without, sample_size_without |-> 2]
OnB(data) == [a \in {"B"} |-> data]
TeamPatterns ==
    { [m \in {"Star"} |-> OnB(Impact(20, 25))],
      [m \in {"Star"} |-> OnB(Impact(10, 20))],
      [m \in {"Star"} |-> OnB(Impact(100, 102))],
      [m \in {"Star"} |-> OnB(Impact(0, 5))],
      [m \in {"Star"} |-> OnB(Impact(20, 10))],
      [m \in {"Star"} |-> OnB([without_player |-> 25])],
      [m \in {"Star", "Star2"} |->
          IF m = "Star" THEN OnB(Impact(20, 25)) ELSE OnB(Impact(10, 20))] }
Patterns == {EmptyMap} \cup { [t \in RosterTeams |-> tp] : tp \in TeamPatterns }

Learned(ast, pts, reb) ==
    [ast_multiplier |-> Hundredths(ast), pts_multiplier |-> Hundredths(pts),
     reb_multiplier |-> Hundredths(reb)]
Entry(k, v) == [key |-> k, value |-> v]
TeamImpacts ==
    { <<Entry("Star", <<Entry("B", Learned(115, 105, 100))>>)>>,
      <<Entry("Star", <<Entry("B", Learned(130, 120, 120))>>)>>,
      <<Entry("Star", <<Entry("B", Learned(101, 101, 100))>>)>>,
      <<Entry("Star", <<Entry("B", Learned(80, 110, 100))>>)>>,
      <<Entry("Star", <<Entry("B", [ast_multiplier |-> [text |-> "x"]])>>)>>,
      <<Entry("Star", <<Entry("B", Learned(115, 105, 100)),
                        Entry("C", [pts_multiplier |-> Hundredths(110)])>>),
        Entry("Star2", <<Entry("B", Learned(110, 110, 105))>>)>> }
LearnedAbsenceImpacts ==
    {EmptyMap} \cup { [t \in RosterTeams |-> ti] : ti \in TeamImpacts }

\* slates: player -> projected minutes.  B has 30 of 150 active minutes
\* with Star out; the same with Star in; B at 36 of 150; nobody
Slates ==
    { EmptyMap,
      [p \in {"B", "C", "D", "E", "F"} |->
          CASE p = "B" -> 30 [] p = "F" -> 12 [] OTHER -> 36],
      [p \in {"Star", "B", "C", "D", "E", "F"} |->
          CASE p = "Star" -> 35 [] p = "B" -> 30 [] p = "F" -> 12 [] OTHER -> 36],
      [p \in {"B", "C", "D", "E", "F"} |->
          CASE p = "E" -> 30 [] p = "F" -> 12 [] OTHER -> 36] }

Engines ==
    { [master_stats |-> m, patterns |-> p, learned_absence_impacts |-> l,
       team_caps |-> DefaultTeamCaps, team |-> "none", slate |-> EmptyMap] :
        m \in MasterStats, p \in Patterns, l \in LearnedAbsenceImpacts }

\* the system after __init__ when no model file exists
NoUsageInput ==
    [master_stats |-> [loaded |-> FALSE, rows |-> << >>], patterns |-> EmptyMap,
     learned_absence_impacts |-> EmptyMap, team_caps |-> DefaultTeamCaps,
     team |-> "none", slate |-> EmptyMap]
NotCalled == [called |-> FALSE, raised |-> FALSE, adjustments |-> EmptyMap]
NotGenerated ==
    [generated |-> FALSE, dfs_data |-> << >>, predict |-> EmptyMap,
     projections |-> << >>]

UsageFrame ==
    UNCHANGED <<service_vars, master_vars, pure_vars, conc_vars, matcher_vars,
                predict_vars>>

\* adjustments = calculate_usage_adjustments(team, projected_players_dict)
CalculateUsageAdjustments(team, slate) ==
    /\ ~usage_out.called /\ ~daily_out.generated
    /\ usage_in' = [usage_in EXCEPT !.team = team, !.slate = slate]
    /\ \E result \in {calculate_usage_adjustments(usage_in, team, slate)} :
          usage_out' = [called |-> TRUE, raised |-> result.raised,
                        adjustments |-> result.value]
    /\ UNCHANGED daily_out
    /\ UsageFrame

\* predict() of the players of a slate: the statistical model's output is
\* an input here; it fails for a player it has no averages for.  One request
\* is followed per run: a call of the engine or a generation.
Projection(pts, reb, ast) ==
    [k \in {"Points", "Rebounds", "Assists", "Three Pointers Made", "Steals",
            "Blocks", "Turnovers", "PRA"} |->
        CASE k = "Points" -> pts [] k = "Rebounds" -> reb [] k = "Assists" -> ast
          [] k = "PRA" -> pts + reb + ast [] OTHER -> 1]
Predictions(slate) ==
    { [p \in DOMAIN slate |->
          IF p \in unknown THEN [success |-> FALSE, projections |-> EmptyMap]
          ELSE [success |-> TRUE, projections |-> Projection(pts, 5, 4)]] :
        unknown \in {{}, {"F"}}, pts \in {20} }
DfsData(team, slate) ==
    With(SetToSeq(DOMAIN slate), LAMBDA names :
        [i \in 1..Len(names) |->
            [player |-> names[i], team |-> team, minutes |-> slate[names[i]]]])

\* projections = generate_daily_projections(dfs_data)
GenerateDailyProjections(team, slate, predict) ==
    /\ ~usage_out.called /\ ~daily_out.generated
    /\ daily_out' = [generated |-> TRUE, dfs_data |-> DfsData(team, slate),
                     predict |-> predict,
                     projections |->
                        generate_daily_projections(DfsData(team, slate), predict)]
    /\ UNCHANGED <<usage_in, usage_out>>
    /\ UsageFrame

\* ---- HistoricalPatternMatcher called on its own ----
\* pattern tables of team T: each of three players may have a pattern for
\* teammate B, with ratios 1.25, 2.0, 1.04, 0.96, 1.02 or 0.5
MatcherMissing == {"M1", "M2", "M3"}
NoPattern == [absent |-> TRUE]
PatternChoices ==
    {NoPattern, Impact(20, 25), Impact(10, 20), Impact(100, 104),
     Impact(100, 96), Impact(100, 102), Impact(20, 10)}
MatcherTables ==
    { [patterns |->
          [t \in {"T"} |->
              [m \in { m \in MatcherMissing : c[m] # NoPattern } |-> OnB(c[m])]],
       team |-> "none", missing_players |-> << >>, active_players |-> {}] :
        c \in [MatcherMissing -> PatternChoices] }
NoMatcherInput ==
    [patterns |-> EmptyMap, team |-> "none", missing_players |-> << >>,
     active_players |-> {}]
\* the lists of distinct missing players, in every order
MissingLists ==
    { order \in UNION { [1..k -> MatcherMissing] : k \in 1..Cardinality(MatcherMissing) } :
        \A i, j \in 1..Len(order) : i # j => order[i] # order[j] }

\* adjustments = find_similar_situation(team, missing_players, active_players)
FindSimilarSituation(team, missing_players, active_players) ==
    /\ ~pm_out.called
    /\ pm_in' = [pm_in EXCEPT !.team = team, !.missing_players = missing_players,
                              !.active_players = active_players]
    /\ \E result \in {find_similar_situation(pm_in.patterns, team, missing_players,
                                              active_players)} :
          pm_out' = [called |-> TRUE, raised |-> result.raised,
                     adjustments |-> result.value]
    /\ UNCHANGED <<usage_in, usage_out, daily_out, predict_vars>>
    /\ UNCHANGED <<service_vars, master_vars, pure_vars, conc_vars>>

NextMatcher ==
    \E team \in {"T", "U"}, missing_players \in MissingLists :
        FindSimilarSituation(team, missing_players, {"B", "C"})

\* ---- predict and blend_with_etr_rates ----
STAT_COLUMNS ==
    <<"Points", "Assists", "Rebounds", "Three Pointers Made", "Turnovers",
      "Steals", "Blocks", "PRA">>
DictGet(d, k, default) == IF k \in DOMAIN d THEN d[k] ELSE default
Thousandths(k) == Rat(k, 1000)
NoDict == [k \in {} |-> RZero]
PositionRates(pts, ast, reb, tpm) ==
    [k \in {"pts_per_min", "ast_per_min", "reb_per_min", "3pm_per_min"} |->
        CASE k = "pts_per_min" -> Thousandths(pts)
          [] k = "ast_per_min" -> Thousandths(ast)
          [] k = "reb_per_min" -> Thousandths(reb)
          [] OTHER -> Thousandths(tpm)]
\* _default_tuning_params()
DefaultTuningParams ==
    [position_fallback_rates |->
        [pos \in {"PG", "SG", "SF", "PF", "C"} |->
            CASE pos = "PG" -> PositionRates(480, 175, 126, 61)
              [] pos = "SG" -> PositionRates(450, 107, 133, 69)
              [] pos = "SF" -> PositionRates(440, 83, 163, 57)
              [] pos = "PF" -> PositionRates(440, 80, 205, 50)
              [] OTHER -> PositionRates(430, 79, 292, 26)],
     sample_size_confidence |->
        [k \in {"1_game", "2-3_games", "4-6_games", "7+_games"} |->
            CASE k = "1_game" -> Hundredths(30)
              [] k = "2-3_games" -> Hundredths(60)
              [] k = "4-6_games" -> Hundredths(85)
              [] OTHER -> ROne]]

is_valid_number(value) == ~IsNaN(value)

\* a missing argument (None)
NoTeammates == [given |-> FALSE, names |-> {}]
Teammates(names) == [given |-> TRUE, names |-> names]

\* _get_effective_rate(player, team, playing_teammates, stat)
RedistributedRate(team_redist, player, playing_teammates, rate_key) ==
    With(<<team_redist, rate_key>>, LAMBDA a :
        LET hits == { i \in 1..Len(a[1]) :
                        /\ a[1][i].key \notin playing_teammates.names
                        /\ player \in DOMAIN a[1][i].value
                        /\ a[2] \in DOMAIN a[1][i].value[player] }
        IN  IF hits = {} THEN [found |-> FALSE, rate |-> RZero]
            ELSE [found |-> TRUE,
                  rate |-> a[1][CHOOSE i \in hits : \A j \in hits : i <= j]
                               .value[player][a[2]]])
_get_effective_rate(sys, player, team, playing_teammates, stat) ==
    IF player \notin DOMAIN sys.etr_rates THEN RZero
    ELSE With(DictGet(sys.etr_rates[player], stat \o "_per_min", RZero),
              LAMBDA base_rate :
         IF ~playing_teammates.given THEN base_rate
         ELSE IF team \notin DOMAIN sys.redistribution_rates THEN base_rate
         ELSE With(RedistributedRate(sys.redistribution_rates[team], player,
                                     playing_teammates, "without_" \o stat \o "_rate"),
                   LAMBDA hit : IF hit.found THEN hit.rate ELSE base_rate))

\* projections['PRA'] = projections['Points'] + projections['Rebounds']
\*                      + projections['Assists']
WithPRA(projections) ==
    [projections EXCEPT !["PRA"] =
        RAdd(RAdd(projections["Points"], projections["Rebounds"]),
             projections["Assists"])]

\* the confidence weight of a sample size
Confidence(sample_conf, sample_size) ==
    IF sample_size = 1 THEN DictGet(sample_conf, "1_game", Hundredths(50))
    ELSE IF sample_size <= 3 THEN DictGet(sample_conf, "2-3_games", Hundredths(75))
    ELSE IF sample_size <= 6 THEN DictGet(sample_conf, "4-6_games", Hundredths(90))
    ELSE DictGet(sample_conf, "7+_games", ROne)

\* the position-based fallback of a player without ETR rates
PositionProjections(projections, pos_rates, minutes) ==
    WithPRA([k \in DOMAIN projections |->
        CASE k = "Points" ->
                RMul(DictGet(pos_rates, "pts_per_min", Hundredths(45)), minutes)
          [] k = "Assists" ->
                RMul(DictGet(pos_rates, "ast_per_min", Hundredths(10)), minutes)
          [] k = "Rebounds" ->
                RMul(DictGet(pos_rates, "reb_per_min", Hundredths(15)), minutes)
          [] k = "Three Pointers Made" ->
                RMul(DictGet(pos_rates, "3pm_per_min", Hundredths(5)), minutes)
          [] k = "Steals" -> RMul(Hundredths(2), minutes)
          [] k = "Blocks" -> RMul(Hundredths(2), minutes)
          [] k = "Turnovers" -> RMul(Hundredths(5), minutes)
          [] OTHER -> projections[k]])

\* confidence * etr + (1 - confidence) * pos
ConfidenceBlend(confidence, etr_value, pos_value) ==
    RAdd(RMul(confidence, etr_value), RMul(RSub(ROne, confidence), pos_value))

\* the ETR branch of blend_with_etr_rates, after the sample-size test
EtrProjections(sys, player_name, minutes, projections, opponent, team, playing_teammates, position, pos_fallback, confidence) ==
    With(<<RMul(_get_effective_rate(sys, player_name, team, playing_teammates, "pts"),
                minutes),
           RMul(_get_effective_rate(sys, player_name, team, playing_teammates, "ast"),
                minutes),
           RMul(_get_effective_rate(sys, player_name, team, playing_teammates, "reb"),
                minutes)>>, LAMBDA etr_proj :
    With(IF position # "" /\ position \in DOMAIN pos_fallback /\ RLess(confidence, ROne)
         THEN <<ConfidenceBlend(confidence, etr_proj[1],
                      RMul(DictGet(pos_fallback[position], "pts_per_min",
                                   Hundredths(45)), minutes)),
                ConfidenceBlend(confidence, etr_proj[2],
                      RMul(DictGet(pos_fallback[position], "ast_per_min",
                                   Hundredths(10)), minutes)),
                ConfidenceBlend(confidence, etr_proj[3],
                      RMul(DictGet(pos_fallback[position], "reb_per_min",
                                   Hundredths(15)), minutes))>>
         ELSE etr_proj, LAMBDA blended :
    With(IF opponent # "" /\ opponent \in DOMAIN sys.opponent_defense
         THEN sys.opponent_defense[opponent] ELSE NoDict, LAMBDA opp_adj :
    WithPRA([k \in DOMAIN projections |->
        CASE k = "Points" -> RMul(blended[1], DictGet(opp_adj, "pts_mult", ROne))
          [] k = "Assists" -> RMul(blended[2], DictGet(opp_adj, "ast_mult", ROne))
          [] k = "Rebounds" -> RMul(blended[3], DictGet(opp_adj, "reb_mult", ROne))
          [] k = "Three Pointers Made" ->
                RMul(DictGet(sys.etr_rates[player_name], "3pm_per_min", RZero), minutes)
          [] k = "Steals" ->
                RMul(DictGet(sys.etr_rates[player_name], "stl_per_min", RZero), minutes)
          [] k = "Blocks" ->
                RMul(DictGet(sys.etr_rates[player_name], "blk_per_min", RZero), minutes)
          [] k = "Turnovers" ->
                RMul(DictGet(sys.etr_rates[player_name], "tov_per_min", RZero), minutes)
          [] OTHER -> projections[k]]))))

\* etr.get('sample_size', 0)
SampleSize(etr) == DictGet(etr, "sample_size", RZero).n

\* blend_with_etr_rates(player_name, minutes, ml_projections, opponent, team,
\*                      playing_teammates, position); position "" is None
blend_with_etr_rates(sys, player_name, minutes, ml_projections, opponent, team, playing_teammates, position) ==
    With(DictGet(sys.tuning_params, "position_fallback_rates", NoDict),
         LAMBDA pos_fallback :
    IF player_name \notin DOMAIN sys.etr_rates
    THEN IF position # "" /\ position \in DOMAIN pos_fallback
         THEN PositionProjections(ml_projections, pos_fallback[position], minutes)
         ELSE ml_projections
    ELSE IF SampleSize(sys.etr_rates[player_name]) < 1
    THEN ml_projections
    ELSE EtrProjections(sys, player_name, minutes, ml_projections, opponent, team,
                        playing_teammates, position, pos_fallback,
                        Confidence(DictGet(sys.tuning_params, "sample_size_confidence",
                                           NoDict),
                                   SampleSize(sys.etr_rates[player_name]))))

\* the loop of predict over stat_columns: max(0, pred) of every model
ModelProjections(models) ==
    [k \in { STAT_COLUMNS[i] : i \in 1..Len(STAT_COLUMNS) } |-> Max2(RZero, models[k])]
ModelsFail(models) ==
    \E i \in 1..Len(STAT_COLUMNS) :
        \/ STAT_COLUMNS[i] \notin DOMAIN models
        \/ ~is_valid_number(models[STAT_COLUMNS[i]])
ZeroProjections ==
    [k \in { STAT_COLUMNS[i] : i \in 1..Len(STAT_COLUMNS) } |-> RZero]
Failure == [success |-> FALSE, projections |-> NoDict]
Success(projections) == [success |-> TRUE, projections |-> projections]

\* predict(player_name, opponent, minutes, team, playing_teammates); team ""
\* is None
predict(sys, player_name, opponent, minutes, team, playing_teammates) ==
    IF player_name \notin DOMAIN sys.player_averages
    THEN IF player_name \in DOMAIN sys.etr_rates
         THEN Success(blend_with_etr_rates(
                        sys, player_name, minutes, ZeroProjections, opponent,
                        IF team # "" THEN team
                        ELSE DictGet(sys.etr_rates[player_name], "team", "UNK"),
                        playing_teammates, ""))
         ELSE Failure
    ELSE IF ModelsFail(sys.models) THEN Failure
    ELSE Success(blend_with_etr_rates(
                    sys, player_name, minutes, ModelProjections(sys.models), opponent,
                    IF team # "" THEN team
                    ELSE DictGet(sys.player_averages[player_name], "Team", "UNK"),
                    playing_teammates,
                    DictGet(sys.player_averages[player_name], "Position", "SG")))

\* ---- the loaded tables predict is called on ----
\* what the eight models return for the player's feature vector: a PRA that
\* is or is not the sum of the three, a negative value, a NaN, no PRA model
ModelOutputs ==
    { [k \in { STAT_COLUMNS[i] : i \in 1..Len(STAT_COLUMNS) } |->
          CASE k = "Points" -> pts [] k = "Assists" -> RInt(4)
            [] k = "Rebounds" -> RInt(5) [] k = "PRA" -> pra [] OTHER -> ROne] :
        pts \in {RInt(20), RInt(-2), RNaN}, pra \in {RInt(29), RInt(31)} }
        \cup { [k \in {"Points", "Assists", "Rebounds"} |-> RInt(3)] }
EtrEntry(sample_size) ==
    [k \in {"sample_size", "pts_per_min", "ast_per_min", "reb_per_min",
            "3pm_per_min", "stl_per_min", "blk_per_min", "tov_per_min"} |->
        CASE k = "sample_size" -> RInt(sample_size)
          [] k = "pts_per_min" -> Hundredths(50)
          [] k = "ast_per_min" -> Hundredths(10)
          [] k = "reb_per_min" -> Hundredths(20)
          [] OTHER -> Hundredths(5)]
EtrRates ==
    {NoDict} \cup { [p \in {"A"} |-> EtrEntry(n)] : n \in {0, 1, 3, 7} }
PlayerAverages ==
    {NoDict} \cup { [p \in {"A"} |-> [Team |-> "T", Position |-> pos]] :
                      pos \in {"PG", "G"} }
OpponentDefense ==
    {NoDict, [o \in {"X"} |-> [k \in {"pts_mult"} |-> Hundredths(110)]]}
RedistributionRates ==
    {NoDict,
     [t \in {"T"} |->
        <<Entry("Star", [p \in {"A"} |->
                            [k \in {"without_pts_rate"} |-> Hundredths(60)]])>>]}
PredictSystems ==
    { [player_averages |-> pa, models |-> mo, etr_rates |-> er,
       opponent_defense |-> od, redistribution_rates |-> rr, tuning_params |-> tp,
       player_name |-> "none", opponent |-> "", minutes |-> RZero, team |-> "",
       playing_teammates |-> NoTeammates] :
        pa \in PlayerAverages, mo \in ModelOutputs, er \in EtrRates,
        od \in OpponentDefense, rr \in RedistributionRates,
        tp \in {DefaultTuningParams, NoDict} }
\* the system after __init__ when no file exists
NoPredictInput ==
    [player_averages |-> NoDict, models |-> NoDict, etr_rates |-> NoDict,
     opponent_defense |-> NoDict, redistribution_rates |-> NoDict,
     tuning_params |-> DefaultTuningParams,
     player_name |-> "none", opponent |-> "", minutes |-> RZero, team |-> "",
     playing_teammates |-> NoTeammates]
NotPredicted == [called |-> FALSE, success |-> FALSE, projections |-> NoDict]

\* result = predict(player_name, opponent, minutes, team, playing_teammates)
Predict(player_name, opponent, minutes, team, playing_teammates) ==
    /\ ~pred_out.called
    /\ pred_in' = [pred_in EXCEPT !.player_name = player_name, !.opponent = opponent,
                                  !.minutes = minutes, !.team = team,
                                  !.playing_teammates = playing_teammates]
    /\ \E result \in {predict(pred_in, player_name, opponent, minutes, team,
                              playing_teammates)} :
          pred_out' = [called |-> TRUE, success |-> result.success,
                       projections |-> result.projections]
    /\ UNCHANGED <<usage_in, usage_out, daily_out, matcher_vars>>
    /\ UNCHANGED <<service_vars, master_vars, pure_vars, conc_vars>>

NextPredict ==
    \E opponent \in {"X", "Y"}, minutes \in {RZero, RInt(30)}, team \in {"", "T"},
       playing_teammates \in {NoTeammates, Teammates({"A"}), Teammates({"A", "Star"})} :
        Predict("A", opponent, minutes, team, playing_teammates)

\* ---- the generic fallback on rosters with several teammates ----
\* Star (34 typical minutes) and up to four teammates of the same typical
\* minutes and points; no pattern table and no learned absence impacts
Teammate(k) == <<"B", "C", "D", "E">>[k]
GenericFrames ==
    { <<Game("T", "Star", 34, StatLine(star_pts, 6, 8, 1, 1, 2))>> \o
      [k \in 1..n |-> Game("T", Teammate(k), mins, StatLine(pts, 4, 2, 1, 0, 1))] :
        star_pts \in {2, 25}, n \in 1..4, mins \in {15, 20, 30}, pts \in {10, 20} }
GenericEngines ==
    { [master_stats |-> [loaded |-> TRUE, rows |-> rows], patterns |-> EmptyMap,
       learned_absence_impacts |-> EmptyMap, team_caps |-> DefaultTeamCaps,
       team |-> "none", slate |-> EmptyMap] : rows \in GenericFrames }
\* the first n teammates at the same projected minutes, with or without Star
GenericSlates ==
    { [p \in { Teammate(k) : k \in 1..n } \cup (IF star THEN {"Star"} ELSE {}) |->
          IF p = "Star" THEN 34 ELSE mins] :
        n \in 1..4, mins \in {30, 36}, star \in BOOLEAN }
NextGeneric == \E slate \in GenericSlates : CalculateUsageAdjustments("T", slate)

NextUsage ==
    \/ \E team \in RosterTeams, slate \in Slates :
          CalculateUsageAdjustments(team, slate)
    \/ \E team \in RosterTeams, slate \in Slates \ {EmptyMap} :
          \E predicted \in Predictions(slate) :
              GenerateDailyProjections(team, slate, predicted)

\* -------------------------------------------------------------------------
\* daily_api.upload_and_retrain under a threaded server
\* -------------------------------------------------------------------------
\* No lock guards etr_history.csv: each request runs the steps of the
\* handler on its own thread, and the steps of two requests interleave.
\* Worker w uploads a one-row file for date w.
Workers == {1, 2}
IdleWorker == [pc |-> "idle", req |-> NoRequest, df_all |-> << >>,
               df_hist |-> << >>, response |-> NoResponse]
NothingObserved == [seen |-> FALSE, rows |-> << >>, during_write |-> FALSE]
ConcRequests(w) ==
    { [kind |-> "csv", date |-> w, columns |-> FullCols, rows |-> <<r>>] :
        r \in { x \in RawRows : x.Player = StrA } }

\* a to_csv of some request has opened the file and not yet closed it
BeingWritten == \E w \in Workers : workers[w].pc = "write_close"

\* the except branch of the handler: 500
Failed500 == [status |-> 500, ok |-> FALSE, rows_uploaded |-> 0, history_rows |-> 0]

ConcFrame == UNCHANGED <<req, response, uploads, master_vars, pure_vars, usage_vars>>

\* the request arrives: the file is read and canonicalized
Receive(w, r) ==
    /\ workers[w].pc = "idle"
    /\ workers' = [workers EXCEPT ![w] = [@ EXCEPT !.pc = "read_prev", !.req = r]]
    /\ UNCHANGED <<hist_csv, projections_latest, calibration_summary, observed>>
    /\ ConcFrame

\* _append_history up to the sort and drop_duplicates: df_prev is whatever
\* the file holds at this moment.  A file another request has just opened
\* for writing and not written to is empty: read_csv raises EmptyDataError.
ReadPrev(w) ==
    /\ workers[w].pc = "read_prev"
    /\ \/ \E df \in {_canonicalize_cols(workers[w].req.rows)} :
            workers' = [workers EXCEPT ![w] =
                [@ EXCEPT !.pc = "write_open",
                          !.df_all = _append_history(hist_csv, df, workers[w].req.date)]]
       \/ /\ BeingWritten /\ hist_csv = << >>
          /\ workers' = [workers EXCEPT ![w] =
                [@ EXCEPT !.pc = "done", !.response = Failed500]]
    /\ UNCHANGED <<hist_csv, projections_latest, calibration_summary, observed>>
    /\ ConcFrame

\* df_all.to_csv(HIST_CSV): opening the file truncates it; until the close
\* the file holds the rows flushed so far
WriteOpen(w) ==
    /\ workers[w].pc = "write_open"
    /\ \E k \in 0..(Len(workers[w].df_all) - 1) :
          hist_csv' = SubSeq(workers[w].df_all, 1, k)
    /\ workers' = [workers EXCEPT ![w] = [@ EXCEPT !.pc = "write_close"]]
    /\ UNCHANGED <<projections_latest, calibration_summary, observed>>
    /\ ConcFrame

\* the close of to_csv: the file holds df_all
WriteClose(w) ==
    /\ workers[w].pc = "write_close"
    /\ hist_csv' = workers[w].df_all
    /\ workers' = [workers EXCEPT ![w] = [@ EXCEPT !.pc = "read_hist"]]
    /\ UNCHANGED <<projections_latest, calibration_summary, observed>>
    /\ ConcFrame

\* df_hist = pd.read_csv(HIST_CSV)
ReadHist(w) ==
    /\ workers[w].pc = "read_hist"
    /\ \/ /\ hist_csv # << >>
          /\ workers' = [workers EXCEPT ![w] =
                [@ EXCEPT !.pc = "artifacts", !.df_hist = ReadCsv(hist_csv)]]
       \/ /\ hist_csv = << >>
          /\ workers' = [workers EXCEPT ![w] =
                [@ EXCEPT !.pc = "done", !.response = Failed500]]
    /\ UNCHANGED <<hist_csv, projections_latest, calibration_summary, observed>>
    /\ ConcFrame

\* projections_latest.csv and calibration_summary.json are rewritten
WriteArtifacts(w) ==
    /\ workers[w].pc = "artifacts"
    /\ projections_latest' = _rebuild_latest_projections(workers[w].df_hist)
    /\ calibration_summary' = _train_calibrations(workers[w].df_hist).summary
    /\ workers' = [workers EXCEPT ![w] = [@ EXCEPT !.pc = "respond"]]
    /\ UNCHANGED <<hist_csv, observed>>
    /\ ConcFrame

\* return jsonify({"ok": True, ...})
Respond(w) ==
    /\ workers[w].pc = "respond"
    /\ workers' = [workers EXCEPT ![w] =
          [@ EXCEPT !.pc = "done",
                    !.response = [status |-> 200, ok |-> TRUE,
                                  rows_uploaded |-> Len(workers[w].req.rows),
                                  history_rows |-> Len(workers[w].df_hist)]]]
    /\ UNCHANGED <<hist_csv, projections_latest, calibration_summary, observed>>
    /\ ConcFrame

\* GET /api/daily/health (or library, download): pd.read_csv(HIST_CSV)
Health ==
    /\ \E w \in Workers : workers[w].pc # "idle"
    /\ observed' = [seen |-> TRUE, rows |-> ReadCsv(hist_csv),
                    during_write |-> BeingWritten]
    /\ UNCHANGED <<hist_csv, projections_latest, calibration_summary, workers>>
    /\ ConcFrame

NextConc ==
    \/ \E w \in Workers : \E r \in ConcRequests(w) : Receive(w, r)
    \/ \E w \in Workers : ReadPrev(w)
    \/ \E w \in Workers : WriteOpen(w)
    \/ \E w \in Workers : WriteClose(w)
    \/ \E w \in Workers : ReadHist(w)
    \/ \E w \in Workers : WriteArtifacts(w)
    \/ \E w \in Workers : Respond(w)
    \/ Health

\* -------------------------------------------------------------------------
\* Specifications
\* -------------------------------------------------------------------------
NoCli == [date |-> 0, columns |-> {}, rows |-> << >>]
IdleService ==
    /\ hist_csv = << >>
    /\ projections_latest = << >>
    /\ calibration_summary = NoSummary
    /\ req = NoRequest
    /\ response = NoResponse
    /\ uploads = 0
IdleMaster == master = << >> /\ raw_files = [d \in Dates |-> << >>] /\ cli = NoCli
IdleWeights == w_dates = << >> /\ w_out = << >>
IdleCal == cal_hist = << >> /\ cal_out = NotTrained
IdleMatcher == pm_in = NoMatcherInput /\ pm_out = NotCalled
IdlePredict == pred_in = NoPredictInput /\ pred_out = NotPredicted
IdleUsage ==
    /\ usage_in = NoUsageInput /\ usage_out = NotCalled /\ daily_out = NotGenerated
    /\ IdleMatcher /\ IdlePredict
IdleConc == workers = [w \in Workers |-> IdleWorker] /\ observed = NothingObserved

\* the upload service
Init == IdleService /\ IdleMaster /\ IdleWeights /\ IdleCal /\ IdleUsage /\ IdleConc
Next == \E r \in Requests : upload_and_retrain(r)
Spec == Init /\ [][Next]_vars

\* the command-line appender
NextMaster == \E a \in CliRuns \cup BadCliRuns : etr_add_daily_main(a)
SpecMaster == Init /\ [][NextMaster]_vars

\* _exponential_weights on every date column within the bounds
NextWeights == WeightsCall \/ \E d \in 1..MaxWeightDay : WeightsAddRow(d)
SpecWeights == Init /\ [][NextWeights]_vars

\* _train_calibrations on every history frame within the bounds
InitCal ==
    /\ IdleService /\ IdleMaster /\ IdleWeights /\ IdleUsage /\ IdleConc
    /\ cal_hist \in CalHistories
    /\ cal_out = NotTrained
SpecCal == InitCal /\ [][CalTrain]_vars

\* two uploads on two threads
SpecConc == Init /\ [][NextConc]_vars

\* calls of predict on a constructed system
InitPredict ==
    /\ IdleService /\ IdleMaster /\ IdleWeights /\ IdleCal /\ IdleConc
    /\ usage_in = NoUsageInput /\ usage_out = NotCalled /\ daily_out = NotGenerated
    /\ IdleMatcher
    /\ pred_in \in PredictSystems
    /\ pred_out = NotPredicted
SpecPredict == InitPredict /\ [][NextPredict]_vars

\* calls of the usage engine on a constructed system
InitUsage ==
    /\ IdleService /\ IdleMaster /\ IdleWeights /\ IdleCal /\ IdleConc
    /\ usage_in \in Engines /\ usage_out = NotCalled /\ daily_out = NotGenerated
    /\ IdleMatcher /\ IdlePredict
SpecUsage == InitUsage /\ [][NextUsage]_vars

\* calls of the usage engine that take the generic fallback
InitGeneric ==
    /\ IdleService /\ IdleMaster /\ IdleWeights /\ IdleCal /\ IdleConc
    /\ usage_in \in GenericEngines /\ usage_out = NotCalled /\ daily_out = NotGenerated
    /\ IdleMatcher /\ IdlePredict
SpecGeneric == InitGeneric /\ [][NextGeneric]_vars

\* calls of the pattern matcher on a loaded pattern table
InitMatcher ==
    /\ IdleService /\ IdleMaster /\ IdleWeights /\ IdleCal /\ IdleConc
    /\ usage_in = NoUsageInput /\ usage_out = NotCalled /\ daily_out = NotGenerated
    /\ IdlePredict
    /\ pm_in \in MatcherTables /\ pm_out = NotCalled
SpecMatcher == InitMatcher /\ [][NextMatcher]_vars

\* -------------------------------------------------------------------------
\* The history store: idempotence, merge, uniqueness, identity, validation
\* -------------------------------------------------------------------------
\* minutes_api._norm: " ".join(str(s).strip().lower().split())
LowerCode(c) == IF c >= 65 /\ c <= 90 THEN c + 32 ELSE c
Lower(s) == [i \in 1..Len(s) |-> LowerCode(s[i])]
RECURSIVE CollapseSpaces(_)
CollapseSpaces(s) ==
    IF Len(s) <= 1 THEN s
    ELSE IF s[1] = SPACE /\ s[2] = SPACE THEN CollapseSpaces(Tail(s))
    ELSE <<s[1]>> \o CollapseSpaces(Tail(s))
_norm(s) == CollapseSpaces(Strip(Lower(s)))

\* the step is an upload that was answered ok=true
UploadedOk == uploads' = uploads + 1 /\ response'.ok

\* C1: appending the identical snapshot for the same date a second time
\* leaves the persisted history with the same rows: whenever an upload that
\* succeeded is followed by the same upload again, etr_history.csv does not
\* change.
C1_AppendIdempotent ==
    [][(UploadedOk /\ response.ok /\ req' = req)
         => (Len(hist_csv') = Len(hist_csv) /\ hist_csv' = hist_csv)]_vars

\* the snapshot of the step, as _append_history receives and writes it
SnapshotOf(r) == ToCsv(WithDate(_canonicalize_cols(r.rows), r.date))
LastFor(snap, player) ==
    snap[MaxOf({ i \in 1..Len(snap) : snap[i].Player = player })]
KeysOf(rows) == { <<rows[i].Date, rows[i].Player>> : i \in 1..Len(rows) }
RowSet(rows) == { rows[i] : i \in 1..Len(rows) }

\* C2: after _append_history(snapshot, D) every row of the history keyed
\* (D, P), P a player of the snapshot, is the snapshot's row for P (there is
\* one, and the prior row for that key is gone), and the rows whose key is
\* not in the snapshot are the same rows as before.
C2_MergeLastWriteWins ==
    [][UploadedOk =>
        LET snap == SnapshotOf(req')
            keys == KeysOf(snap)
        IN  /\ \A i \in 1..Len(snap) :
                 /\ \E j \in 1..Len(hist_csv') :
                       hist_csv'[j] = LastFor(snap, snap[i].Player)
                 /\ \A j \in 1..Len(hist_csv') :
                       <<hist_csv'[j].Date, hist_csv'[j].Player>>
                            = <<snap[i].Date, snap[i].Player>>
                       => hist_csv'[j] = LastFor(snap, snap[i].Player)
            /\ RowsAt(hist_csv', { j \in 1..Len(hist_csv') :
                    <<hist_csv'[j].Date, hist_csv'[j].Player>> \notin keys })
               = RowsAt(hist_csv, { j \in 1..Len(hist_csv) :
                    <<hist_csv[j].Date, hist_csv[j].Player>> \notin keys })]_vars

OneRowPerDatePlayer(rows) ==
    \A i, j \in 1..Len(rows) :
        (rows[i].Date = rows[j].Date /\ rows[i].Player = rows[j].Player) => i = j

\* C3: through either append path the stored history holds at most one row
\* per (date, player), also when a later upload for the same date and player
\* carries a different opponent.
C3_OneRowPerDatePlayer ==
    OneRowPerDatePlayer(master) /\ OneRowPerDatePlayer(ReadCsv(hist_csv))

\* C4: rows of one date whose player names normalize identically (they
\* differ only in letter case or whitespace) are one key: the history keeps
\* one row for them.
C4_NormalizedNameIsIdentity ==
    \A i, j \in 1..Len(hist_csv) :
        ( /\ hist_csv[i].Date = hist_csv[j].Date
          /\ CsvReadCell(hist_csv[i].Player) # NaNObj
          /\ CsvReadCell(hist_csv[j].Player) # NaNObj
          /\ _norm(hist_csv[i].Player) = _norm(hist_csv[j].Player) ) => i = j

\* a row of the uploaded file without a value for a required field
IsMissing(cell) == cell = NaNObj \/ Strip(cell) = StrEmpty
LacksRequired(r) ==
    IsMissing(r.Player) \/ IsMissing(r.Team) \/ IsMissing(r.Opp) \/ r.Minutes = NaN
ValidRows(rows) == { i \in 1..Len(rows) : ~LacksRequired(rows[i]) }

\* C5: an upload with one row that lacks a required value and valid other
\* rows succeeds, keeps the invalid row out of the history, merges the valid
\* rows, and reports the accepted rows without the rejected one.
C5_InvalidRowsDropped ==
    ( /\ req.kind = "csv" /\ RequiredCols \subseteq req.columns
      /\ ValidRows(req.rows) # {}
      /\ ValidRows(req.rows) # 1..Len(req.rows) )
    => /\ response.ok
       /\ response.rows_uploaded = Cardinality(ValidRows(req.rows))
       /\ \A i \in 1..Len(req.rows) :
            LET row == SnapshotOf([req EXCEPT !.rows = <<req.rows[i]>>])[1]
            IN  (row \in RowSet(hist_csv)) <=> (i \in ValidRows(req.rows))

\* -------------------------------------------------------------------------
\* Weights, estimates, multipliers and the blend
\* -------------------------------------------------------------------------
\* C6: for a non-empty date column _exponential_weights returns one weight
\* per row, every weight is a positive number (the division by the decay sum
\* is never a division by zero) and the weights sum to 1.
C6_WeightsPositiveSumToOne ==
    w_out # << >> =>
        /\ Len(w_out) = Len(w_dates)
        /\ \A i \in 1..Len(w_out) : ~IsNaN(w_out[i]) /\ RLess(RZero, w_out[i])
        /\ RSum(w_out) = ROne

\* weights of three rows on two dates, the older row weighted less
C6_Witness ==
    /\ Len(w_out) = 3
    /\ w_dates[1] < w_dates[2] /\ w_dates[2] = w_dates[3]
    /\ RLess(w_out[1], w_out[2]) /\ w_out[2] = w_out[3]

\* player A has exactly three rows, with points 10, 20, 30 on dates 1, 2, 3
RowsOfA == { i \in 1..Len(cal_hist) : cal_hist[i].Player = StrA }
TenTwentyThirty ==
    /\ Cardinality(RowsOfA) = 3
    /\ \A d \in 1..3 : \E i \in RowsOfA :
          cal_hist[i].Date = d /\ cal_hist[i].stat["PTS"] = 10 * d
EstimateOfA == Lookup(cal_out.player_ema, StrA, "PTS")

StatHasOppValue(s) ==
    \E i \in 1..Len(cal_hist) :
        cal_hist[i].stat[s] # NaN /\ cal_hist[i].Opp # NaNObj
MeanMultiplier(s) ==
    LET idx == SetToSeq(cal_out.opp_mult.index)
    IN  RMeanSkipNa([k \in 1..Len(idx) |-> Lookup(cal_out.opp_mult, idx[k], s)])

\* C8: after training, for every stat with at least one opponent value the
\* mean of the opponent multipliers over the opponents is 1.
C8_MultiplierMeanIsOne ==
    cal_out.trained =>
        \A s \in StatSet : StatHasOppValue(s) => MeanMultiplier(s) = ROne

\* the blend as documented: 0.60 * raw + 0.40 * (estimate or raw) *
\* (multiplier or 1), the estimate and the multiplier being the merged
\* <stat>_EMA and <stat>_OPP columns
BlendDocumented(b, stat) ==
    LET raw  == RInt(b.row.stat[stat])
        est  == Where(b.EMA[stat], ~IsNaN(b.EMA[stat]), raw)
        mult == Where(b.OPP[stat], ~IsNaN(b.OPP[stat]), ROne)
    IN  Blend(raw, RMul(est, mult))

\* C9: every stat of every row of projections_latest.csv is
\* 0.60 * raw + 0.40 * (player estimate, else raw) * (opponent multiplier,
\* else 1), with the calibrations trained on the stored history.
C9_BlendFormula ==
    projections_latest # << >> =>
        \E h \in {ReadCsv(hist_csv)} : \E cal \in {_train_calibrations(h)} :
            \A i \in 1..Len(projections_latest) :
                \E j \in 1..Len(h) :
                    /\ h[j].Date = projections_latest[i].Date
                    /\ h[j].Player = projections_latest[i].Player
                    /\ h[j].Opp = projections_latest[i].Opp
                    /\ \A s \in StatSet :
                          projections_latest[i].stat[s]
                              = BlendDocumented(MergedRow(h[j], cal), s)

\* C10: in every row of projections_latest.csv PRA is PTS + REB + AST.
C10_PraIsSum ==
    \A i \in 1..Len(projections_latest) :
        LET out == projections_latest[i].stat
        IN  out["PRA"] = RAdd(RAdd(out["PTS"], out["REB"]), out["AST"])

\* -------------------------------------------------------------------------
\* Concurrent uploads and the order of the handler's effects
\* -------------------------------------------------------------------------
UploadRows(w) == RowSet(SnapshotOf(workers[w].req))
Returned(w) == workers[w].pc = "done"

\* C14: when two upload requests for different dates run concurrently, the
\* history persisted after both have returned ok holds the rows of both
\* uploads, and no reader of etr_history.csv reads it while a write of it
\* is under way (it never sees a partially written history).
C14_SerializedWrites ==
    /\ (\A w \in Workers : Returned(w) /\ workers[w].response.ok)
          => \A w \in Workers : UploadRows(w) \subseteq RowSet(hist_csv)
    /\ observed.seen => ~observed.during_write

\* C15: at the moment upload_and_retrain returns ok=true the merged history
\* holding the rows of this upload is in etr_history.csv, and
\* projections_latest.csv and calibration_summary.json are the ones built
\* from a history that includes these rows.
C15_RetrainBeforeSuccess ==
    [][\A w \in Workers :
        (workers[w].pc = "respond" /\ Returned(w)' /\ workers'[w].response.ok)
        => /\ UploadRows(w) \subseteq RowSet(hist_csv')
           /\ \E v \in Workers :
                /\ workers[v].df_hist # << >>
                /\ UploadRows(w) \subseteq RowSet(ToCsv(workers[v].df_hist))
                /\ projections_latest'
                     = _rebuild_latest_projections(workers[v].df_hist)
                /\ calibration_summary'
                     = _train_calibrations(workers[v].df_hist).summary]_vars

\* -------------------------------------------------------------------------
\* Shape of the recency weights and of the per-player estimates
\* -------------------------------------------------------------------------
DistinctDates == { w_dates[i] : i \in 1..Len(w_dates) }
RankOf(i) == Cardinality({ d \in DistinctDates : d <= w_dates[i] })
SameOrder(d, e) ==
    /\ Len(d) = Len(e)
    /\ \A i, j \in 1..Len(d) : (d[i] < d[j]) <=> (e[i] < e[j])

CalPlayers == { cal_hist[i].Player : i \in 1..Len(cal_hist) }
ValuesOf(p, s) ==
    { cal_hist[i].stat[s] : i \in { i \in 1..Len(cal_hist) : cal_hist[i].Player = p } }
        \ {NaN}
MinOf(S) == CHOOSE m \in S : \A x \in S : m <= x
RowsOfPlayer(p) ==
    RowsAt(cal_hist, { i \in 1..Len(cal_hist) : cal_hist[i].Player = p })
EstimateOf(p, s) == Lookup(cal_out.player_ema, p, s)

\* C19: for a history with non-negative values, every estimate the table
\* holds for a player lies between the smallest and the largest of that
\* player's own values of the stat, and equals the estimate trained on that
\* player's rows alone (rows of other players do not change it).
C19_EstimateIsOwnExpectedValue ==
    cal_out.trained =>
        \A p \in CalPlayers : \A s \in StatSet :
            (ValuesOf(p, s) # {} /\ ~IsNaN(EstimateOf(p, s))) =>
                /\ ~RLess(EstimateOf(p, s), RInt(MinOf(ValuesOf(p, s))))
                /\ ~RLess(RInt(MaxOf(ValuesOf(p, s))), EstimateOf(p, s))
                /\ EstimateOf(p, s) =
                      Lookup(_train_calibrations(RowsOfPlayer(p)).player_ema, p, s)

\* C20: for each of the eight stats, a player has a non-missing estimate in
\* the player-rate table exactly when the history has a row of that player
\* with a value of the stat.
C20_PresentIffHasValue ==
    cal_out.trained =>
        \A p \in CalPlayers : \A s \in StatSet :
            ~IsNaN(EstimateOf(p, s)) <=> ValuesOf(p, s) # {}

\* -------------------------------------------------------------------------
\* The usage engine: caps, failure, merge, the generic scenario, the output
\* -------------------------------------------------------------------------
Adjustments == usage_out.adjustments
MaxBoost == TeamCap(usage_in.team_caps, usage_in.team)
AtMost(x, y) == ~RLess(y, x)
FromAssistPath(source, stat) ==
    \/ source = "etr_calibrated_absence"
    \/ /\ source \in {"assist_redistribution+historical", "assist_redistribution+generic"}
       /\ stat = "Assists"

\* C11: every multiplier of the returned map that the historical or the
\* generic path computed is at most the team ceiling (team_caps[team],
\* default 1.40), and every multiplier the assist path contributed is at most
\* 1.50 for Assists, 1.35 for Points and 1.30 for Rebounds.
C11_MultipliersCapped ==
    usage_out.called =>
        \A p \in DOMAIN Adjustments : \A s \in DOMAIN Adjustments[p].multipliers :
            IF FromAssistPath(Adjustments[p].source, s)
            THEN /\ s = "Assists" => AtMost(Adjustments[p].multipliers[s], Hundredths(150))
                 /\ s = "Points" => AtMost(Adjustments[p].multipliers[s], Hundredths(135))
                 /\ s = "Rebounds" => AtMost(Adjustments[p].multipliers[s], Hundredths(130))
            ELSE AtMost(Adjustments[p].multipliers[s], MaxBoost)

\* on IND (ceiling 1.15) a pattern of 1.50 is cut to 1.15 for Points while
\* the assist path contributes 1.20 for Assists
C11_Witness ==
    /\ usage_out.called /\ usage_in.team = "IND" /\ "B" \in DOMAIN Adjustments
    /\ Adjustments["B"].source = "assist_redistribution+historical"
    /\ Adjustments["B"].multipliers["Points"] = Hundredths(115)
    /\ Adjustments["B"].multipliers["Assists"] = Hundredths(120)

\* what the body of calculate_usage_adjustments does before the handler of
\* its try block sees it
BodyOfCall ==
    UsageBody(usage_in, usage_in.team, usage_in.slate, MaxBoost,
              calculate_assist_redistribution(usage_in.learned_absence_impacts,
                                              usage_in.team, usage_in.slate).value)
NoTeamRows ==
    \A i \in 1..Len(usage_in.master_stats.rows) :
        usage_in.master_stats.rows[i].Team # usage_in.team

\* C13: calculate_usage_adjustments never raises; without master stats, for
\* a team with no rows in them, or for an empty slate it returns an empty
\* map, and when its body fails the result is an empty map.
C13_NeverRaises ==
    usage_out.called =>
        /\ ~usage_out.raised
        /\ (~usage_in.master_stats.loaded \/ NoTeamRows \/ DOMAIN usage_in.slate = {})
              => DOMAIN Adjustments = {}
        /\ BodyOfCall.raised => DOMAIN Adjustments = {}

\* a pattern entry without 'with_player' fails the lookup inside the body
\* and the call still returns an empty map
C13_Witness ==
    /\ usage_out.called /\ BodyOfCall.raised
    /\ ~usage_out.raised /\ DOMAIN Adjustments = {}

\* the two maps the merge loop of the call combines: the historical or
\* generic path's adjustments and the assist path's
TypicalRoster == get_typical_team_minutes(usage_in.master_stats, usage_in.team)
Missing == MissingPlayers(TypicalRoster, usage_in.slate)
Historical ==
    find_similar_situation(usage_in.patterns, usage_in.team, Missing,
                           DOMAIN usage_in.slate)
MergeHappens ==
    /\ usage_out.called /\ Len(TypicalRoster) > 0 /\ Len(Missing) > 0
    /\ ~Historical.raised
PathAdjustments ==
    IF DOMAIN Historical.value # {}
    THEN HistoricalAdjustments(Historical.value, MaxBoost)
    ELSE GenericAdjustments(TypicalRoster, Missing, usage_in.slate, MaxBoost)
AssistAdjustments ==
    calculate_assist_redistribution(usage_in.learned_absence_impacts,
                                    usage_in.team, usage_in.slate).value
BothHaveAssists(p) ==
    /\ p \in DOMAIN PathAdjustments /\ p \in DOMAIN AssistAdjustments
    /\ "Assists" \in DOMAIN PathAdjustments[p].multipliers
    /\ "Assists" \in DOMAIN AssistAdjustments[p].multipliers

StarScenario ==
    /\ MergeHappens /\ usage_in.team = "T"
    /\ Missing = <<"Star">>
    /\ Item(TypicalRoster, "Star").typical_minutes = RInt(35)
    /\ Item(TypicalRoster, "Star").master_stats["Points"] = RInt(25)
    /\ DOMAIN Historical.value = {}
    /\ "B" \in DOMAIN usage_in.slate /\ usage_in.slate["B"] = 30
    /\ TotalActiveMinutes(usage_in.slate) = 150
    /\ "B" \in Keys(TypicalRoster)
TypicalOfB == Item(TypicalRoster, "B")
EfficiencyOfB ==
    IF RLess(RAdd(TypicalOfB.typical_minutes, RInt(5)), RInt(30))
    THEN Hundredths(67) ELSE Hundredths(57)
PointsFromShare(share) ==
    Min2(MaxBoost,
         RAdd(ROne, RDiv(RMul(RMul(RInt(25), share), EfficiencyOfB),
                         TypicalOfB.master_stats["Points"])))

\* C16 as written: in the scenario B's Points multiplier is
\* min(team ceiling, 1 + (25 * (30/150) * efficiency) / B.typical_points).
C16_PointsByMinuteShare ==
    StarScenario =>
        /\ "B" \in DOMAIN Adjustments
        /\ Adjustments["B"].multipliers["Points"] = PointsFromShare(Rat(30, 150))

\* C16 amended: in the scenario, when the result has an entry for B, its
\* Points multiplier is min(team ceiling, 1 + (25 * share * efficiency) /
\* B.typical_points) with share = 0.80 * (30/150) + 0.20 * max(0, (30 -
\* B.typical_minutes) / B.typical_minutes) and efficiency 0.67 when 30 exceeds
\* B's typical minutes by more than 5, else 0.57.
C16_PointsByTotalShare ==
    (StarScenario /\ "B" \in DOMAIN Adjustments) =>
        Adjustments["B"].multipliers["Points"] =
            PointsFromShare(
                RAdd(RMul(Hundredths(80), Rat(30, 150)),
                     RMul(Hundredths(20),
                          Max2(RZero,
                               RDiv(RSub(RInt(30), TypicalOfB.typical_minutes),
                                    TypicalOfB.typical_minutes)))))

\* B typically plays 30 minutes and scores 10: the share is 0.16 and the
\* Points multiplier 1 + 25 * 0.16 * 0.57 / 10 = 1.228, not 1.285
C16_Witness ==
    /\ StarScenario /\ "B" \in DOMAIN Adjustments
    /\ TypicalOfB.typical_minutes = RInt(30)
    /\ TypicalOfB.master_stats["Points"] = RInt(10)
    /\ Adjustments["B"].multipliers["Points"] = Rat(1228, 1000)

\* the slate a generation was given, and the engine's result for it
SlateOf(dfs_data) ==
    [p \in { dfs_data[i].player : i \in 1..Len(dfs_data) } |->
        dfs_data[CHOOSE i \in 1..Len(dfs_data) : dfs_data[i].player = p].minutes]
EngineYield(team) ==
    calculate_usage_adjustments(usage_in, team, SlateOf(daily_out.dfs_data)).value
FieldOf(stat) ==
    CASE stat = "Points" -> "points" [] stat = "Rebounds" -> "rebounds"
      [] stat = "Assists" -> "assists" [] stat = "Steals" -> "steals"
      [] stat = "Blocks" -> "blocks" [] OTHER -> "three_pointers_made"

\* C12: when the usage engine yields multiplier m for an active player and
\* a stat on the slate generate_daily_projections processed, the emitted row
\* of the player holds the predicted value times m for that stat, its PRA is
\* points + rebounds + assists, and it is flagged usage_boosted.
C12_AdjustmentsReachOutput ==
    daily_out.generated =>
        \A i \in 1..Len(daily_out.projections) :
            \E row \in {daily_out.projections[i]} :
            \E adjustments \in {EngineYield(row.team)} :
                row.player \in DOMAIN adjustments =>
                    /\ row.usage_boosted
                    /\ \A s \in DOMAIN adjustments[row.player].multipliers :
                          row[FieldOf(s)] =
                            RMul(RInt(daily_out.predict[row.player].projections[s]),
                                 adjustments[row.player].multipliers[s])
                    /\ row.pra = RAdd(RAdd(row.points, row.rebounds), row.assists)

\* -------------------------------------------------------------------------
\* Opponent multipliers as weighted means
\* -------------------------------------------------------------------------
\* every row with a value of the stat has the value of every other row of
\* its date, and that value is not 0: every ratio to the day mean is 1
AllRatiosOne(s) ==
    \A i, j \in 1..Len(cal_hist) :
        /\ cal_hist[i].stat[s] # 0
        /\ (cal_hist[i].Date = cal_hist[j].Date
              /\ cal_hist[i].stat[s] # NaN /\ cal_hist[j].stat[s] # NaN)
             => cal_hist[i].stat[s] = cal_hist[j].stat[s]
CalOpps == { cal_hist[i].Opp : i \in 1..Len(cal_hist) }

\* C21: when every ratio of a stat is 1, every multiplier the opponent
\* table holds for that stat is 1.0, whatever the number of rows or dates an
\* opponent appears in.
C21_UnitRatiosGiveUnitMultipliers ==
    cal_out.trained =>
        \A s \in StatSet : AllRatiosOne(s) =>
            \A o \in CalOpps :
                \/ IsNaN(Lookup(cal_out.opp_mult, o, s))
                \/ Lookup(cal_out.opp_mult, o, s) = ROne

\* -------------------------------------------------------------------------
\* The pattern matcher: range, threshold and combination of multipliers
\* -------------------------------------------------------------------------
Matched == pm_out.adjustments
TeamTable == pm_in.patterns[pm_in.team]
\* the multipliers that apply to an active player, in the order of the
\* missing-players list
AppliedTo(a) ==
    With(RowsAt(pm_in.missing_players,
                { i \in 1..Len(pm_in.missing_players) :
                    /\ pm_in.missing_players[i] \in DOMAIN TeamTable
                    /\ a \in DOMAIN TeamTable[pm_in.missing_players[i]]
                    /\ PatternApplies(TeamTable[pm_in.missing_players[i]][a]) }),
         LAMBDA applied :
            [i \in 1..Len(applied) |-> PatternMultiplier(TeamTable[applied[i]][a])])
Found == pm_out.called /\ ~pm_out.raised /\ pm_in.team \in DOMAIN pm_in.patterns

\* C22: every multiplier find_similar_situation returns lies in
\* [0.90, 1.50], also for a teammate affected by several missing players.
C22_MultipliersInRange ==
    pm_out.called =>
        \A a \in DOMAIN Matched :
            /\ AtMost(Hundredths(90), Matched[a])
            /\ AtMost(Matched[a], Hundredths(150))

\* ratios 2.0 and 0.5 for B are clamped to 1.50 and 0.90 and averaged
C22_Witness ==
    /\ Found /\ "B" \in DOMAIN Matched
    /\ AppliedTo("B") = <<Hundredths(150), Hundredths(90)>>
    /\ Matched["B"] = Hundredths(120)

\* C23: every multiplier find_similar_situation returns differs from 1.0
\* by more than 0.03, also when it combines the patterns of several missing
\* players.
C23_DeviationAboveThreshold ==
    pm_out.called =>
        \A a \in DOMAIN Matched :
            RLess(Hundredths(3), RAbs(RSub(Matched[a], ROne)))

\* C24: when two or more missing players each imply an applicable
\* multiplier for an active teammate, the returned multiplier is their
\* arithmetic mean, and every ordering of the missing-players list gives the
\* same result.
C24_MeanOfMultipliers ==
    Found =>
        \A a \in pm_in.active_players :
            Len(AppliedTo(a)) >= 2 =>
                /\ a \in DOMAIN Matched
                /\ Matched[a] = RDiv(RSum(AppliedTo(a)), RInt(Len(AppliedTo(a))))
                /\ \A order \in MissingLists :
                      { order[i] : i \in 1..Len(order) } =
                          { pm_in.missing_players[i] : i \in 1..Len(pm_in.missing_players) }
                      => find_similar_situation(pm_in.patterns, pm_in.team, order,
                                                pm_in.active_players).value[a]
                            = Matched[a]

\* -------------------------------------------------------------------------
\* Path selection and the independence of the assist override
\* -------------------------------------------------------------------------
HistoricalSources == {"historical_pattern", "assist_redistribution+historical"}
GenericSources == {"generic", "assist_redistribution+generic"}
SourcesUsed == { Adjustments[p].source : p \in DOMAIN Adjustments }
MissingSet == { Missing[i] : i \in 1..Len(Missing) }
EveryMissingHasEntry ==
    /\ usage_in.team \in DOMAIN usage_in.patterns
    /\ MissingSet \subseteq DOMAIN usage_in.patterns[usage_in.team]

NoMixedSources ==
    ~(SourcesUsed \cap HistoricalSources # {} /\ SourcesUsed \cap GenericSources # {})

\* C25: the historical path is used only when the pattern table has an
\* entry for every missing player of the team; when a missing player has no
\* entry the generic fallback computes the adjustments; and no result holds
\* both historical and generic entries.
C25_HistoricalNeedsEveryMissingPlayer ==
    MergeHappens =>
        /\ SourcesUsed \cap HistoricalSources # {} => EveryMissingHasEntry
        /\ ~EveryMissingHasEntry =>
              Adjustments =
                  MergeAssist(GenericAdjustments(TypicalRoster, Missing,
                                                 usage_in.slate, MaxBoost),
                              AssistAdjustments, "assist_redistribution+generic")
        /\ NoMixedSources

\* C26: every active player for whom calculate_assist_redistribution yields
\* an adjustment has an adjustment in the map calculate_usage_adjustments
\* returns, also when the team has no typical roster or no missing player of
\* 20 or more typical minutes.
C26_AssistOverrideIndependent ==
    (usage_out.called /\ ~BodyOfCall.raised) =>
        \A p \in DOMAIN usage_in.slate :
            p \in DOMAIN AssistAdjustments => p \in DOMAIN Adjustments

\* -------------------------------------------------------------------------
\* predict: PRA
\* -------------------------------------------------------------------------
Projected == pred_out.projections
SumOfThree ==
    RAdd(RAdd(Projected["Points"], Projected["Rebounds"]), Projected["Assists"])
HasEtrRates == pred_in.player_name \in DOMAIN pred_in.etr_rates
HasAverages == pred_in.player_name \in DOMAIN pred_in.player_averages

\* C27: every successful predict returns projections whose PRA is Points +
\* Rebounds + Assists, for a player with ETR rates, with a sample size below
\* 1, and without ETR rates with or without a position fallback.
C27_PRAIsSumOfThree ==
    (pred_out.called /\ pred_out.success) => Projected["PRA"] = SumOfThree

\* -------------------------------------------------------------------------
\* The latest-projection table and the history after a failed upload
\* -------------------------------------------------------------------------
History == ReadCsv(hist_csv)
PlayersOnLatestDate ==
    { History[i].Player :
        i \in { j \in 1..Len(History) : History[j].Date = LatestDate(History) } }
TableRowsOf(p) ==
    { i \in 1..Len(projections_latest) : projections_latest[i].Player = p }

\* C28: after any sequence of uploads the latest-projection table holds
\* exactly one row for every player with a history row on the maximum date of
\* the history, and no row of another date or of another player, also when
\* the last upload was for an older date.
C28_OneRowPerPlayerOfLatestDate ==
    Len(projections_latest) > 0 =>
        /\ \A i \in 1..Len(projections_latest) :
              /\ projections_latest[i].Date = LatestDate(History)
              /\ projections_latest[i].Player \in PlayersOnLatestDate
        /\ \A p \in PlayersOnLatestDate : Cardinality(TableRowsOf(p)) = 1

\* C29: an upload answered with ok=false (status 400 or 500) leaves the
\* persisted history with the rows it had before the call.
C29_FailedUploadKeepsHistory ==
    [][(uploads' = uploads + 1 /\ ~response'.ok) => hist_csv' = hist_csv]_vars

\* -------------------------------------------------------------------------
\* The generic fallback and the missing players' production
\* -------------------------------------------------------------------------
GenericPathTaken == MergeHappens /\ DOMAIN Historical.value = {}
\* what a multiplier adds to a player's typical value of a stat
Gain(p, s) ==
    IF p \in Keys(TypicalRoster) /\ s \in DOMAIN Adjustments[p].multipliers
    THEN RMul(RSub(Adjustments[p].multipliers[s], ROne),
              Item(TypicalRoster, p).master_stats[s])
    ELSE RZero
TotalGain(s) ==
    With(SetToSeq(DOMAIN Adjustments), LAMBDA adjusted :
        RSum([k \in 1..Len(adjusted) |-> Gain(adjusted[k], s)]))
Pool(s) == MissingProduction(TypicalRoster, Missing, s)

\* C30: on the generic path, for every stat, the sum over the adjusted
\* players of (multiplier - 1) times the player's typical value is at most
\* the missing players' total typical production of that stat.
C30_GainsWithinPool ==
    GenericPathTaken =>
        \A s \in USAGE_STATS : AtMost(TotalGain(s), Pool(s))
====
